---------------------------- MODULE Spec2Model ----------------------------
(***************************************************************************)
(* A model of the OIC archive diff engine: the path/content normalizer,    *)
(* and the file-level diff (computeFileDiff) of                            *)
(* server/utils/diffEngine.ts with normalizeXML of                         *)
(* server/utils/fileProcessor.ts.                                          *)
(*                                                                         *)
(* Strings are TLA+ strings; a character is a string of length one.  A     *)
(* nullable value is <<>> (null) or <<v>>.                                 *)
(***************************************************************************)
EXTENDS Integers, Sequences, FiniteSets, TLC

VARIABLES
    path, once, twice,                    \* normalizePath: input, f(p), f(f(p))
    cpath, cleft, cright, nleft, nright,  \* normalizeContent: inputs and outputs
    leftFiles, rightFiles, result,        \* computeFileDiff: inputs and output
    swapped,                              \* computeFileDiff: output for (right, left)
    left, right, ops,                     \* computeDiffOperations: inputs and output
    leftFlow, rightFlow, changes,         \* compareFlows: inputs and output
    doc, parser, outcome,                 \* the flow parsers: input, parser run, output
    run, storedItems,                     \* storage: the diff run and its stored items
    jobPc, computed, storeThrew,          \* processDiffAsync: position, result, failure
    viewPc, viewRun, viewItems, loading,  \* DiffViewer: position and state
    selectedItem,                         \* DiffViewer: the item shown
    runAnswer, itemsAnswer, pollPc        \* DiffViewer: responses in flight, polling

lcsVars == <<left, right, ops>>
cmpVars == <<leftFlow, rightFlow, changes>>
parseVars == <<doc, parser, outcome>>
jobVars == <<run, storedItems, jobPc, computed, storeThrew>>
viewVars == <<viewPc, viewRun, viewItems, loading, selectedItem,
              runAnswer, itemsAnswer, pollPc>>
runVars == <<jobVars, viewVars>>

vars == <<path, once, twice, cpath, cleft, cright, nleft, nright,
          leftFiles, rightFiles, result, swapped, lcsVars, cmpVars, parseVars,
          runVars>>

Null == <<>>
Some(v) == <<v>>

(***************************************************************************)
(* Characters and the character classes of the regular expressions.        *)
(***************************************************************************)
Ch(s, i) == SubSeq(s, i, i)

Digit == {"0", "1", "2", "3", "4", "5", "6", "7", "8", "9"}
HexLower == Digit \cup {"a", "b", "c", "d", "e", "f"}
HexDash == HexLower \cup {"-"}
WhiteSpace == {" ", "\t", "\n", "\r"}
Slash == {"/"}

UpperToLower ==
    [c \in {"A","B","C","D","E","F","G","H","I","J","K","L","M","N","O","P",
            "Q","R","S","T","U","V","W","X","Y","Z"} |->
       CASE c = "A" -> "a" [] c = "B" -> "b" [] c = "C" -> "c" [] c = "D" -> "d"
         [] c = "E" -> "e" [] c = "F" -> "f" [] c = "G" -> "g" [] c = "H" -> "h"
         [] c = "I" -> "i" [] c = "J" -> "j" [] c = "K" -> "k" [] c = "L" -> "l"
         [] c = "M" -> "m" [] c = "N" -> "n" [] c = "O" -> "o" [] c = "P" -> "p"
         [] c = "Q" -> "q" [] c = "R" -> "r" [] c = "S" -> "s" [] c = "T" -> "t"
         [] c = "U" -> "u" [] c = "V" -> "v" [] c = "W" -> "w" [] c = "X" -> "x"
         [] c = "Y" -> "y" [] c = "Z" -> "z"]

\* The characters lo..hi of s in lower case, by halves.
RECURSIVE LowerFrom(_, _, _)
LowerFrom(s, lo, hi) ==
    IF lo > hi THEN ""
    ELSE IF lo = hi
    THEN IF Ch(s, lo) \in DOMAIN UpperToLower THEN UpperToLower[Ch(s, lo)] ELSE Ch(s, lo)
    ELSE LowerFrom(s, lo, (lo + hi) \div 2) \o LowerFrom(s, (lo + hi) \div 2 + 1, hi)

\* String.prototype.toLowerCase
toLowerCase(s) == LowerFrom(s, 1, Len(s))

\* The first index >= i whose character is not in cls (Len(s)+1 if none): the end
\* of a greedy cls* starting at i.
RECURSIVE RunEnd(_, _, _)
RunEnd(s, i, cls) ==
    IF i > Len(s) \/ Ch(s, i) \notin cls THEN i ELSE RunEnd(s, i + 1, cls)

\* The last index <= i whose character is not in cls (0 if none).
RECURSIVE RunStartBack(_, _, _)
RunStartBack(s, i, cls) ==
    IF i < 1 \/ Ch(s, i) \notin cls THEN i ELSE RunStartBack(s, i - 1, cls)

\* String.prototype.trim
trim(s) ==
    LET b == RunEnd(s, 1, WhiteSpace)
        e == RunStartBack(s, Len(s), WhiteSpace)
    IN IF b > e THEN "" ELSE SubSeq(s, b, e)

HasAt(s, i, lit) ==
    /\ i + Len(lit) - 1 <= Len(s)
    /\ SubSeq(s, i, i + Len(lit) - 1) = lit

\* String.prototype.includes / endsWith
includes(s, sub) == \E i \in 1..(Len(s) - Len(sub) + 1) : HasAt(s, i, sub)
endsWith(s, suf) == Len(suf) <= Len(s) /\ HasAt(s, Len(s) - Len(suf) + 1, suf)

\* The first index >= i holding character q, 0 if there is none.
RECURSIVE FindChar(_, _, _)
FindChar(s, i, q) ==
    IF i > Len(s) THEN 0
    ELSE IF Ch(s, i) = q THEN i ELSE FindChar(s, i + 1, q)

(***************************************************************************)
(* Regular-expression matching.  Each Match operator gives, for a pattern  *)
(* tried at index i of s, the index just after the match, or 0 when the    *)
(* pattern does not match there.                                           *)
(***************************************************************************)
\* /lit cls+/
MatchLitRun(s, i, lit, cls) ==
    IF HasAt(s, i, lit) /\ RunEnd(s, i + Len(lit), cls) > i + Len(lit)
    THEN RunEnd(s, i + Len(lit), cls) ELSE 0

\* /lit[^q]*q/ where lit ends with the opening quote q
MatchQuoted(s, i, lit, q) ==
    IF HasAt(s, i, lit)
    THEN LET j == FindChar(s, i + Len(lit), q) IN IF j > 0 THEN j + 1 ELSE 0
    ELSE 0

\* /_\d{2}\.\d{2}\.\d{4}/
MatchVersion(s, i) ==
    IF /\ i + 10 <= Len(s)
       /\ Ch(s, i) = "_"
       /\ Ch(s, i + 1) \in Digit /\ Ch(s, i + 2) \in Digit
       /\ Ch(s, i + 3) = "."
       /\ Ch(s, i + 4) \in Digit /\ Ch(s, i + 5) \in Digit
       /\ Ch(s, i + 6) = "."
       /\ \A k \in 7..10 : Ch(s, i + k) \in Digit
    THEN i + 11 ELSE 0

\* /\s*\(\d+\)/
MatchNumberedSuffix(s, i) ==
    LET j == RunEnd(s, i, WhiteSpace)
        k == RunEnd(s, j + 1, Digit)
    IN IF /\ j <= Len(s) /\ Ch(s, j) = "("
          /\ k > j + 1
          /\ k <= Len(s) /\ Ch(s, k) = ")"
       THEN k + 1 ELSE 0

\* /orajs\d+:/
MatchOrajsPrefix(s, i) ==
    LET k == MatchLitRun(s, i, "orajs", Digit)
    IN IF k > 0 /\ k <= Len(s) /\ Ch(s, k) = ":" THEN k + 1 ELSE 0

\* /xmlns:orajs\d+="[^"]*"/
MatchXmlnsOrajs(s, i) ==
    LET k == MatchLitRun(s, i, "xmlns:orajs", Digit)
    IN IF k > 0 /\ HasAt(s, k, "=\"")
       THEN LET j == FindChar(s, k + 2, "\"") IN IF j > 0 THEN j + 1 ELSE 0
       ELSE 0

\* String.prototype.replace with a global regular expression: scan from the
\* left, replace each match and go on after it; ends[i] is the match end at i.
RECURSIVE Rebuild(_, _, _, _, _, _)
RebuildJoin(head, tail) == [text |-> head.text \o tail.text, next |-> tail.next]

RebuildNext(head, s, ends, repl, lo, hi) ==
    RebuildJoin(head, Rebuild(s, ends, repl, head.next, lo, hi))

\* The scan from index i over the indices lo..hi (i >= lo): the text it leaves
\* and the index at which it goes on.  The range is halved, which gives the
\* result of the scan by single indices.
Rebuild(s, ends, repl, i, lo, hi) ==
    IF i > hi THEN [text |-> "", next |-> i]
    ELSE IF lo = hi
    THEN IF ends[i] > 0 THEN [text |-> repl, next |-> ends[i]]
         ELSE [text |-> Ch(s, i), next |-> i + 1]
    ELSE RebuildNext(Rebuild(s, ends, repl, i, lo, (lo + hi) \div 2),
                     s, ends, repl, (lo + hi) \div 2 + 1, hi)

\* ends is the function giving, for each index of s, the match end there; a
\* pattern that matches nowhere leaves the string as it is.
ReplaceAll(s, ends, repl) ==
    IF \A i \in DOMAIN ends : ends[i] = 0 THEN s
    ELSE Rebuild(s, ends, repl, 1, 1, Len(s)).text

ReplaceLitRun(s, lit, cls, repl) ==
    ReplaceAll(s, [i \in 1..Len(s) |-> MatchLitRun(s, i, lit, cls)], repl)

ReplaceQuoted(s, lit, q, repl) ==
    ReplaceAll(s, [i \in 1..Len(s) |-> MatchQuoted(s, i, lit, q)], repl)

(***************************************************************************)
(* normalizePath                                                           *)
(***************************************************************************)
normalizePath(p) ==
    LET n1 == ReplaceLitRun(p, "processor_", Digit, "processor_X")
        n2 == ReplaceLitRun(n1, "resourcegroup_", Digit, "resourcegroup_X")
        n3 == ReplaceLitRun(n2, "application_", Digit, "application_X")
        n4 == ReplaceLitRun(n3, "inbound_", Digit, "inbound_X")
        n5 == ReplaceLitRun(n4, "outbound_", Digit, "outbound_X")
        n6 == ReplaceLitRun(n5, "itg_", HexDash, "itg_X")
        n7 == ReplaceAll(n6, [i \in 1..Len(n6) |-> MatchVersion(n6, i)], "")
        n8 == ReplaceAll(n7, [i \in 1..Len(n7) |-> MatchNumberedSuffix(n7, i)], "")
        n9 == ReplaceLitRun(n8, "req_", HexLower, "req_X")
        n10 == ReplaceLitRun(n9, "res_", HexLower, "res_X")
    IN trim(toLowerCase(ReplaceLitRun(n10, "", Slash, "/")))

(***************************************************************************)
(* normalizeXML (fileProcessor.ts) and normalizeContent (diffEngine.ts)    *)
(***************************************************************************)
normalizeXML(xmlContent) ==
    LET n1 == ReplaceQuoted(xmlContent, "timestamp=\"", "\"", "timestamp=\"\"")
        n2 == ReplaceQuoted(n1, "createdTime=\"", "\"", "createdTime=\"\"")
        n3 == ReplaceQuoted(n2, "modifiedTime=\"", "\"", "modifiedTime=\"\"")
        n4 == ReplaceQuoted(n3, "lastUpdatedTime=\"", "\"", "lastUpdatedTime=\"\"")
        n5 == ReplaceQuoted(n4, "xml:id=\"", "\"", "")
        n6 == ReplaceQuoted(n5, "xml:id='", "'", "")
        n7 == ReplaceQuoted(n6, "generatedId=\"", "\"", "")
        n8 == ReplaceLitRun(n7, "processor_", Digit, "processor_NORMALIZED")
        n9 == ReplaceLitRun(n8, "resourcegroup_", Digit, "resourcegroup_NORMALIZED")
        n10 == ReplaceLitRun(n9, "application_", Digit, "application_NORMALIZED")
        n11 == ReplaceLitRun(n10, "inbound_", Digit, "inbound_NORMALIZED")
        n12 == ReplaceLitRun(n11, "outbound_", Digit, "outbound_NORMALIZED")
        n13 == ReplaceAll(n12, [i \in 1..Len(n12) |-> MatchXmlnsOrajs(n12, i)], "")
        n14 == ReplaceAll(n13, [i \in 1..Len(n13) |-> MatchOrajsPrefix(n13, i)], "orajs:")
    IN trim(ReplaceLitRun(n14, "", WhiteSpace, " "))

XmlExtensions == {".xml", ".xsl", ".xslt", ".wsdl", ".xsd", ".jca"}

\* The ID patterns applied to .properties files and to files of other extensions.
normalizeIds(content) ==
    LET n1 == ReplaceLitRun(content, "processor_", Digit, "processor_X")
        n2 == ReplaceLitRun(n1, "resourcegroup_", Digit, "resourcegroup_X")
        n3 == ReplaceLitRun(n2, "itg_", HexDash, "itg_X")
        n4 == ReplaceLitRun(n3, "application_", Digit, "application_X")
        n5 == ReplaceLitRun(n4, "inbound_", Digit, "inbound_X")
    IN ReplaceLitRun(n5, "outbound_", Digit, "outbound_X")

normalizeJson(content) ==
    LET n1 == ReplaceLitRun(content, "\"itg_", HexDash, "\"itg_X")
        n2 == ReplaceLitRun(n1, "\"/tmp/WC/itg_", HexDash, "\"/tmp/WC/itg_X")
        n3 == ReplaceLitRun(n2, "processor_", Digit, "processor_X")
    IN ReplaceLitRun(n3, "resourcegroup_", Digit, "resourcegroup_X")

normalizeContent(content, p) ==
    LET lowerPath == toLowerCase(p)
    IN IF \E ext \in XmlExtensions : endsWith(lowerPath, ext) THEN normalizeXML(content)
       ELSE IF endsWith(lowerPath, ".json") THEN normalizeJson(content)
       ELSE IF endsWith(lowerPath, ".properties") THEN normalizeIds(content)
       ELSE normalizeIds(content)

(***************************************************************************)
(* computeFileDiff (diffEngine.ts).  An ArchiveFile is a record            *)
(* [path, hash, content], content nullable.  A Map is the sequence of its  *)
(* <<key, value>> entries in insertion order.                              *)
(***************************************************************************)
\* String(buffer) -> hex digest: modelled as an injective tag of the content.
computeFileSHA256(content) == "sha256:" \o content

\* Map.prototype.set: a present key keeps its place and takes the new value.
MapSet(m, k, v) ==
    IF \E i \in DOMAIN m : m[i][1] = k
    THEN [i \in DOMAIN m |-> IF m[i][1] = k THEN <<k, v>> ELSE m[i]]
    ELSE Append(m, <<k, v>>)

\* Map.prototype.get, undefined as Null
MapGet(m, k) ==
    IF \E i \in DOMAIN m : m[i][1] = k
    THEN Some(m[CHOOSE i \in DOMAIN m : m[i][1] = k][2])
    ELSE Null

MapKeys(m) == [i \in DOMAIN m |-> m[i][1]]

\* for (const f of files) map.set(normalizePath(f.path), f)
RECURSIVE BuildMapFrom(_, _, _)
BuildMapFrom(files, i, m) ==
    IF i > Len(files) THEN m
    ELSE BuildMapFrom(files, i + 1, MapSet(m, normalizePath(files[i].path), files[i]))

BuildMap(files) == BuildMapFrom(files, 1, <<>>)

\* new Set([...a, ...b]) in iteration order: first occurrences, in order
RECURSIVE UniqueFrom(_, _, _)
UniqueFrom(xs, i, acc) ==
    IF i > Len(xs) THEN acc
    ELSE UniqueFrom(xs, i + 1,
                    IF \E j \in DOMAIN acc : acc[j] = xs[i] THEN acc
                    ELSE Append(acc, xs[i]))

allNormalizedPaths(leftMap, rightMap) ==
    UniqueFrom(MapKeys(leftMap) \o MapKeys(rightMap), 1, <<>>)

\* The truthiness of a string | null value: null and '' are falsy.
Truthy(v) == v # Null /\ v[1] # ""

categorizeFile(p) ==
    LET lowerPath == toLowerCase(p)
    IN IF includes(lowerPath, "connection") \/ endsWith(lowerPath, ".jca")
         THEN "connections"
       ELSE IF \/ includes(lowerPath, "mapping") \/ endsWith(lowerPath, ".xsl")
               \/ endsWith(lowerPath, ".xslt")
         THEN "mappings"
       ELSE IF includes(lowerPath, "orchestration") \/ includes(lowerPath, "bpel")
         THEN "flowLogic"
       ELSE IF includes(lowerPath, "lookup") \/ includes(lowerPath, "dvm")
         THEN "lookups"
       ELSE IF \/ includes(lowerPath, "schedule") \/ includes(lowerPath, "tracking")
               \/ endsWith(lowerPath, ".properties")
         THEN "configuration"
       ELSE "other"

\* The severity analyzePathChange returns for an Added or Removed path.
analyzePathChange(p, changeType) ==
    LET lowerPath == toLowerCase(p)
    IN IF includes(lowerPath, "orchestration") THEN "High"
       ELSE IF \/ endsWith(lowerPath, ".xsl") \/ endsWith(lowerPath, ".xslt")
               \/ includes(lowerPath, "mapping")
         THEN (IF changeType = "Removed" THEN "High" ELSE "Medium")
       ELSE IF includes(lowerPath, "connection") \/ endsWith(lowerPath, ".jca")
         THEN "Medium"
       ELSE IF endsWith(lowerPath, ".wsdl") \/ endsWith(lowerPath, ".xsd")
         THEN "Medium"
       ELSE IF includes(lowerPath, "lookup") \/ includes(lowerPath, "dvm")
         THEN "Low"
       ELSE IF includes(lowerPath, "schedule") THEN "Low"
       ELSE "Info"

\* The severity analyzeFileChange returns for a Modified pair of files, p
\* being the path it matches the keywords against.
ModifiedSeverity(p, leftFile, rightFile) ==
    IF includes(p, "orchestration") THEN "High"
    ELSE IF endsWith(p, ".xsl") \/ endsWith(p, ".xslt") \/ includes(p, "mapping")
      THEN (IF /\ Truthy(leftFile.content) /\ Truthy(rightFile.content)
               /\ normalizeXML(leftFile.content[1])
                    # normalizeXML(rightFile.content[1])
            THEN "High" ELSE "Medium")
    ELSE IF includes(p, "connection") \/ endsWith(p, ".jca") THEN "Medium"
    ELSE IF endsWith(p, ".wsdl") THEN "Medium"
    ELSE IF endsWith(p, ".xsd") THEN "Medium"
    ELSE IF includes(p, "lookup") \/ includes(p, "dvm") THEN "Low"
    ELSE IF includes(p, "schedule") THEN "Low"
    ELSE IF includes(p, "tracking") THEN "Low"
    ELSE IF endsWith(p, ".properties") THEN "Low"
    ELSE IF includes(p, "error") \/ includes(p, "fault") THEN "Low"
    ELSE "Info"

\* Mutant: the keywords are matched against the path as stored, not lower-cased.
analyzeFileChange_CaseSensitive(leftFile, rightFile) ==
    ModifiedSeverity(leftFile.path, leftFile, rightFile)

\* const path = leftFile.path.toLowerCase()
analyzeFileChange(leftFile, rightFile) ==
    ModifiedSeverity(toLowerCase(leftFile.path), leftFile, rightFile)

\* Mutant: the raw contents are compared, normalizeContent is forgotten.
IsNoiseOnly_RawCompare(leftFile, rightFile) ==
    /\ Truthy(leftFile.content) /\ Truthy(rightFile.content)
    /\ leftFile.content[1] = rightFile.content[1]

\* Mutant: a missing content is compared as the empty content.
IsNoiseOnly_NullAsEmpty(leftFile, rightFile) ==
    normalizeContent(IF leftFile.content = Null THEN "" ELSE leftFile.content[1],
                     leftFile.path)
      = normalizeContent(IF rightFile.content = Null THEN "" ELSE rightFile.content[1],
                         rightFile.path)

\* Both contents are present and equal after normalization: the difference of
\* the two files is noise, and the path is skipped.
IsNoiseOnly(leftFile, rightFile) ==
    /\ Truthy(leftFile.content) /\ Truthy(rightFile.content)
    /\ normalizeContent(leftFile.content[1], leftFile.path)
         = normalizeContent(rightFile.content[1], rightFile.path)

\* file?.path || null
RefOf(file) == IF file = Null \/ file[1].path = "" THEN Null ELSE Some(file[1].path)

\* file?.hash
HashOf(file) == IF file = Null THEN Null ELSE Some(file[1].hash)

\* Mutant: a path that only the left list has is reported Added as well.
ClassifyPath_RemovedAsAdded(normalizedPath, leftFile, rightFile) ==
    IF leftFile = Null \/ rightFile = Null
      THEN Some([changeType |-> "Added",
                 severity |-> analyzePathChange(normalizedPath, "Added")])
    ELSE IF leftFile[1].hash # rightFile[1].hash
      THEN (IF IsNoiseOnly(leftFile[1], rightFile[1]) THEN Null
            ELSE Some([changeType |-> "Modified",
                       severity |-> analyzeFileChange(leftFile[1], rightFile[1])]))
    ELSE Null

\* The change of one normalized path: Null when the loop continues without an
\* item, else the change type and the severity.
ClassifyPath(normalizedPath, leftFile, rightFile) ==
    IF leftFile = Null
      THEN Some([changeType |-> "Added",
                 severity |-> analyzePathChange(normalizedPath, "Added")])
    ELSE IF rightFile = Null
      THEN Some([changeType |-> "Removed",
                 severity |-> analyzePathChange(normalizedPath, "Removed")])
    ELSE IF leftFile[1].hash # rightFile[1].hash
      THEN (IF IsNoiseOnly(leftFile[1], rightFile[1]) THEN Null
            ELSE Some([changeType |-> "Modified",
                       severity |-> analyzeFileChange(leftFile[1], rightFile[1])]))
    ELSE Null

(***************************************************************************)
(* generateDiffPatch                                                       *)
(***************************************************************************)
\* removedLines.slice(0, 50) / addedLines.slice(0, 50)
PatchLineCap == 50

\* The index of the k-th line feed of s; 0 for k = 0, Len(s) + 1 past the last.
LineFeeds(s) == {i \in 1..Len(s) : Ch(s, i) = "\n"}

LineFeedAt(s, k) ==
    IF k = 0 THEN 0
    ELSE IF k > Cardinality(LineFeeds(s)) THEN Len(s) + 1
    ELSE CHOOSE i \in LineFeeds(s) :
           Cardinality({j \in LineFeeds(s) : j <= i}) = k

\* String.prototype.split('\n'): the pieces between the line feeds of s.
split(s) ==
    [k \in 1..(Cardinality(LineFeeds(s)) + 1) |->
       SubSeq(s, LineFeedAt(s, k - 1) + 1, LineFeedAt(s, k) - 1)]

\* Array.prototype.join('\n')
RECURSIVE JoinFrom(_, _, _)
JoinFrom(lines, lo, hi) ==
    IF lo > hi THEN ""
    ELSE IF lo = hi THEN lines[lo]
    ELSE JoinFrom(lines, lo, (lo + hi) \div 2) \o "\n"
         \o JoinFrom(lines, (lo + hi) \div 2 + 1, hi)

join(lines) == JoinFrom(lines, 1, Len(lines))

\* Array.prototype.slice(0, n)
slice(xs, n) == SubSeq(xs, 1, IF Len(xs) < n THEN Len(xs) ELSE n)

\* new Set(lines.map(l => l.trim()))
TrimmedSet(lines) == {trim(lines[i]) : i \in DOMAIN lines}

\* lines.filter(l => !otherSet.has(l.trim()) && l.trim().length > 0)
LinesNotIn(lines, otherSet) ==
    SelectSeq(lines, LAMBDA l : trim(l) \notin otherSet /\ Len(trim(l)) > 0)

PrefixLines(lines, prefix) == [i \in DOMAIN lines |-> prefix \o lines[i]]

\* The '--- REMOVED' block of the patch, empty when no line was removed.
RemovedSection(removedLines) ==
    IF Len(removedLines) = 0 THEN <<>>
    ELSE <<"--- REMOVED (" \o ToString(Len(removedLines)) \o " lines) ---">>
         \o PrefixLines(slice(removedLines, PatchLineCap), "- ")
         \o (IF Len(removedLines) > PatchLineCap
             THEN <<"... and " \o ToString(Len(removedLines) - PatchLineCap)
                      \o " more removed lines">>
             ELSE <<>>)
         \o <<"">>

\* The '+++ ADDED' block of the patch, empty when no line was added.
AddedSection(addedLines) ==
    IF Len(addedLines) = 0 THEN <<>>
    ELSE <<"+++ ADDED (" \o ToString(Len(addedLines)) \o " lines) +++">>
         \o PrefixLines(slice(addedLines, PatchLineCap), "+ ")
         \o (IF Len(addedLines) > PatchLineCap
             THEN <<"... and " \o ToString(Len(addedLines) - PatchLineCap)
                      \o " more added lines">>
             ELSE <<>>)

\* The header lines of a modified file's patch.
PatchHeader(leftLines, rightLines, leftLength, rightLength) ==
    <<"=== FILE MODIFIED ===",
      "Old: " \o ToString(Len(leftLines)) \o " lines, " \o ToString(leftLength)
         \o " bytes",
      "New: " \o ToString(Len(rightLines)) \o " lines, " \o ToString(rightLength)
         \o " bytes",
      "Change: " \o (IF rightLength - leftLength > 0 THEN "+" ELSE "")
         \o ToString(rightLength - leftLength) \o " bytes",
      "">>

PatchBody(removedLines, addedLines) ==
    RemovedSection(removedLines) \o AddedSection(addedLines)
      \o (IF Len(addedLines) = 0 /\ Len(removedLines) = 0
          THEN <<"(Content differs only in whitespace or line ordering)">>
          ELSE <<>>)

ModifiedPatch(leftLines, rightLines, leftLength, rightLength) ==
    join(PatchHeader(leftLines, rightLines, leftLength, rightLength)
           \o PatchBody(LinesNotIn(leftLines, TrimmedSet(rightLines)),
                        LinesNotIn(rightLines, TrimmedSet(leftLines))))

\* leftContent and rightContent are string | null; '' is falsy as null is.
generateDiffPatch(leftContent, rightContent) ==
    IF ~Truthy(leftContent) /\ ~Truthy(rightContent) THEN Null
    ELSE IF ~Truthy(leftContent)
      THEN Some("+++ ADDED FILE +++\n\n" \o rightContent[1])
    ELSE IF ~Truthy(rightContent)
      THEN Some("--- REMOVED FILE ---\n\n" \o leftContent[1])
    ELSE Some(ModifiedPatch(split(leftContent[1]), split(rightContent[1]),
                            Len(leftContent[1]), Len(rightContent[1])))

\* file?.content || null
ContentOf(file) ==
    IF file = Null \/ ~Truthy(file[1].content) THEN Null ELSE file[1].content

\* Mutant: the two references are taken from the wrong sides.
MakeItem_SwappedRefs(normalizedPath, leftFile, rightFile, change) ==
    [changeType |-> change.changeType,
     severity |-> change.severity,
     leftRef |-> RefOf(rightFile),
     rightRef |-> RefOf(leftFile),
     diffPatch |-> generateDiffPatch(ContentOf(leftFile), ContentOf(rightFile)),
     leftHash |-> HashOf(leftFile),
     rightHash |-> HashOf(rightFile),
     path |-> normalizedPath,
     category |-> categorizeFile(normalizedPath)]

MakeItem(normalizedPath, leftFile, rightFile, change) ==
    [changeType |-> change.changeType,
     severity |-> change.severity,
     leftRef |-> RefOf(leftFile),
     rightRef |-> RefOf(rightFile),
     diffPatch |-> generateDiffPatch(ContentOf(leftFile), ContentOf(rightFile)),
     leftHash |-> HashOf(leftFile),
     rightHash |-> HashOf(rightFile),
     path |-> normalizedPath,
     category |-> categorizeFile(normalizedPath)]

EmptySummary ==
    [high |-> 0, medium |-> 0, low |-> 0, info |-> 0, totalMeaningful |-> 0,
     categories |-> [connections |-> 0, mappings |-> 0, flowLogic |-> 0,
                     lookups |-> 0, configuration |-> 0, other |-> 0]]

\* Mutant: an Info item is counted as a Low one.
CountItem_InfoAsLow(summary, item) ==
    IF item.severity = "High" THEN [summary EXCEPT !.high = @ + 1]
    ELSE IF item.severity = "Medium" THEN [summary EXCEPT !.medium = @ + 1]
    ELSE [summary EXCEPT !.low = @ + 1]

\* summary.high++ / medium++ / low++ / info++ and summary.categories[category]++
CountItem(summary, item) ==
    LET counted ==
          IF item.severity = "High" THEN [summary EXCEPT !.high = @ + 1]
          ELSE IF item.severity = "Medium" THEN [summary EXCEPT !.medium = @ + 1]
          ELSE IF item.severity = "Low" THEN [summary EXCEPT !.low = @ + 1]
          ELSE [summary EXCEPT !.info = @ + 1]
    IN [counted EXCEPT !.categories[item.category] = @ + 1]

\* One pass of the loop body for normalizedPath; acc holds meaningfulChanges,
\* minorChanges and summary.
PushItem(acc, item) ==
    IF item.severity = "High" \/ item.severity = "Medium"
    THEN [acc EXCEPT !.meaningful = Append(@, item), !.summary = CountItem(@, item)]
    ELSE [acc EXCEPT !.minor = Append(@, item), !.summary = CountItem(@, item)]

DiffStep(acc, normalizedPath, leftFile, rightFile, change) ==
    IF change = Null THEN acc
    ELSE PushItem(acc, MakeItem(normalizedPath, leftFile, rightFile, change[1]))

\* for (const normalizedPath of allNormalizedPaths) { ... }
RECURSIVE DiffLoop(_, _, _, _, _)
DiffLoop(keys, i, leftMap, rightMap, acc) ==
    IF i > Len(keys) THEN acc
    ELSE DiffLoop(keys, i + 1, leftMap, rightMap,
                  DiffStep(acc, keys[i], MapGet(leftMap, keys[i]),
                           MapGet(rightMap, keys[i]),
                           ClassifyPath(keys[i], MapGet(leftMap, keys[i]),
                                        MapGet(rightMap, keys[i]))))

\* (severityOrder[severity] || 3): an order of 0 is falsy and becomes 3.
SeverityOrder(severity) ==
    LET order == CASE severity = "High" -> 0 [] severity = "Medium" -> 1
                   [] severity = "Low" -> 2 [] severity = "Info" -> 3
    IN IF order = 0 THEN 3 ELSE order

CompareSeverity(a, b) == SeverityOrder(a.severity) - SeverityOrder(b.severity)

\* Array.prototype.sort with a comparator: a stable sort, here by insertion.
RECURSIVE InsertSorted(_, _, _)
InsertSorted(sorted, x, i) ==
    IF i > Len(sorted) THEN Append(sorted, x)
    ELSE IF CompareSeverity(sorted[i], x) > 0
      THEN SubSeq(sorted, 1, i - 1) \o <<x>> \o SubSeq(sorted, i, Len(sorted))
    ELSE InsertSorted(sorted, x, i + 1)

RECURSIVE SortFrom(_, _, _)
SortFrom(xs, i, sorted) ==
    IF i > Len(xs) THEN sorted
    ELSE SortFrom(xs, i + 1, InsertSorted(sorted, xs[i], 1))

SortBySeverity(xs) == SortFrom(xs, 1, <<>>)

\* meaningfulChanges.sort(...); items.push(...meaningfulChanges, ...minorChanges);
\* summary.totalMeaningful = summary.high + summary.medium
FinishDiff(acc) ==
    [items |-> SortBySeverity(acc.meaningful) \o acc.minor,
     summary |-> [acc.summary EXCEPT
                    !.totalMeaningful = acc.summary.high + acc.summary.medium]]

EmptyDiff == [meaningful |-> <<>>, minor |-> <<>>, summary |-> EmptySummary]

\* The loop over the paths of the two maps; two empty maps have no path.
DiffMaps(leftMap, rightMap) ==
    IF leftMap = <<>> /\ rightMap = <<>> THEN FinishDiff(EmptyDiff)
    ELSE FinishDiff(DiffLoop(allNormalizedPaths(leftMap, rightMap), 1, leftMap, rightMap,
                             EmptyDiff))

computeFileDiff(lFiles, rFiles) == DiffMaps(BuildMap(lFiles), BuildMap(rFiles))

(***************************************************************************)
(* Inputs of the normalizePath runs: every concatenation of at most        *)
(* MaxPathParts fragments.                                                 *)
(***************************************************************************)
MaxPathParts == 3

PathParts ==
    {"processor_", "itg_", "ITG_", "req_", "7", "a", "x", "/", " ", "(7)",
     "_01.00.0007"}

RECURSIVE PathsOf(_)
PathsOf(n) ==
    IF n = 0 THEN {""}
    ELSE LET shorter == PathsOf(n - 1)
         IN shorter \cup {s \o f : s \in shorter, f \in PathParts}

PathInputs == PathsOf(MaxPathParts) \ {""}

IdleLcs == left = <<>> /\ right = <<>> /\ ops = Null
IdleCmp == leftFlow = Null /\ rightFlow = Null /\ changes = Null
IdleParse == doc = Null /\ parser = "none" /\ outcome = Null
IdleRun ==
    /\ run = Null /\ storedItems = <<>>
    /\ jobPc = "none" /\ computed = Null /\ storeThrew = FALSE
    /\ viewPc = "unmounted" /\ viewRun = Null /\ viewItems = <<>> /\ loading = TRUE
    /\ selectedItem = Null
    /\ runAnswer = Null /\ itemsAnswer = Null /\ pollPc = "off"
IdleDiff == leftFiles = <<>> /\ rightFiles = <<>> /\ result = Null /\ swapped = Null
IdleContent ==
    cpath = "" /\ cleft = "" /\ cright = "" /\ nleft = Null /\ nright = Null
IdlePath == path = "" /\ once = Null /\ twice = Null

InitPath ==
    /\ path \in PathInputs
    /\ once = Null /\ twice = Null
    /\ IdleContent /\ IdleDiff /\ IdleLcs /\ IdleCmp /\ IdleParse /\ IdleRun

\* normalizePath applied to the input path
NormalizeOnce ==
    /\ path # "" /\ once = Null
    /\ once' = Some(normalizePath(path))
    /\ UNCHANGED <<lcsVars, cmpVars, parseVars, runVars, swapped>>
    /\ UNCHANGED <<path, twice, cpath, cleft, cright, nleft, nright,
                   leftFiles, rightFiles, result>>

\* normalizePath applied to its own result
NormalizeTwice ==
    /\ once # Null /\ twice = Null
    /\ twice' = Some(normalizePath(once[1]))
    /\ UNCHANGED <<lcsVars, cmpVars, parseVars, runVars, swapped>>
    /\ UNCHANGED <<path, once, cpath, cleft, cright, nleft, nright,
                   leftFiles, rightFiles, result>>

NextPath == NormalizeOnce \/ NormalizeTwice

SpecPath == InitPath /\ [][NextPath]_vars

(***************************************************************************)
(* Inputs of the normalizeContent runs: a path of each extension family    *)
(* and two contents Before \o id \o After that differ in the volatile part *)
(* of one identifier.                                                      *)
(***************************************************************************)
\* The documented identifier patterns: the fixed prefix and the class of the
\* volatile part.
IdPatterns ==
    {<<"processor_", Digit>>, <<"resourcegroup_", Digit>>,
     <<"application_", Digit>>, <<"inbound_", Digit>>, <<"outbound_", Digit>>,
     <<"itg_", HexDash>>, <<"req_", HexLower>>, <<"res_", HexLower>>}

ContentPaths ==
    {"a.xml", "m.XSL", "s.wsdl", "c.jca", "d.json", "e.properties", "f.txt", "g.bpel"}

VolatilePairs(cls) ==
    IF cls = Digit THEN {<<"1", "2">>, <<"17", "4">>}
    ELSE IF cls = HexDash THEN {<<"a1", "b2">>, <<"0a-f", "c-9">>}
    ELSE {<<"a1", "b2">>, <<"f7", "04c">>}

ContentBefore == {"", "<a ref=\"", "{\"k\": \"", "p = x/"}
ContentAfter == {"", "/f.wsdl\"/>", "\"}", " "}

\* c1 and c2 are equal except for the volatile part of one identifier.
DiffersOnlyInVolatileId(c1, c2) ==
    \E pat \in IdPatterns :
      \E k \in 1..Len(c1) :
        /\ k <= Len(c2)
        /\ SubSeq(c1, 1, k) = SubSeq(c2, 1, k)
        /\ k >= Len(pat[1]) /\ HasAt(c1, k - Len(pat[1]) + 1, pat[1])
        /\ RunEnd(c1, k + 1, pat[2]) > k + 1
        /\ RunEnd(c2, k + 1, pat[2]) > k + 1
        /\ SubSeq(c1, RunEnd(c1, k + 1, pat[2]), Len(c1))
             = SubSeq(c2, RunEnd(c2, k + 1, pat[2]), Len(c2))
        /\ c1 # c2

InitContent ==
    /\ cpath \in ContentPaths
    /\ \E pat \in IdPatterns, b \in ContentBefore, a \in ContentAfter :
         \E v \in VolatilePairs(pat[2]) :
           /\ cleft = b \o pat[1] \o v[1] \o a
           /\ cright = b \o pat[1] \o v[2] \o a
    /\ nleft = Null /\ nright = Null
    /\ IdlePath /\ IdleDiff /\ IdleLcs /\ IdleCmp /\ IdleParse /\ IdleRun

\* normalizeContent applied to the left content
NormalizeLeft ==
    /\ cpath # "" /\ nleft = Null
    /\ nleft' = Some(normalizeContent(cleft, cpath))
    /\ UNCHANGED <<lcsVars, cmpVars, parseVars, runVars, swapped>>
    /\ UNCHANGED <<path, once, twice, cpath, cleft, cright, nright,
                   leftFiles, rightFiles, result>>

\* normalizeContent applied to the right content
NormalizeRight ==
    /\ cpath # "" /\ nright = Null
    /\ nright' = Some(normalizeContent(cright, cpath))
    /\ UNCHANGED <<lcsVars, cmpVars, parseVars, runVars, swapped>>
    /\ UNCHANGED <<path, once, twice, cpath, cleft, cright, nleft,
                   leftFiles, rightFiles, result>>

NextContent == NormalizeLeft \/ NormalizeRight

SpecContent == InitContent /\ [][NextContent]_vars

(***************************************************************************)
(* Inputs of the computeFileDiff runs: two file lists, in every order,     *)
(* drawn from one archive universe, at most MaxFiles files in all.         *)
(***************************************************************************)
MaxFiles == 3

\* A file whose content the archive processor stored, and one whose content
\* it withheld (100000 characters or more): only the hash h is known.
Stored(p, c) == [path |-> p, hash |-> computeFileSHA256(c), content |-> Some(c)]
Withheld(p, h) == [path |-> p, hash |-> h, content |-> Null]

\* Versions of one XML file: a timestamp re-export, withheld contents, empty
\* and blank contents, and a numbered duplicate (same normalized path).
SameKeyFiles ==
    {Stored("a.xml", "<a timestamp=\"1\"/>"),
     Stored("a.xml", "<a timestamp=\"2\"/>"),
     Withheld("a.xml", "sha256:big1"),
     Withheld("a.xml", "sha256:big2"),
     Stored("a.xml", ""),
     Stored("a.xml", " "),
     Stored("a (1).xml", "<b/>")}

\* XML in a file that has no XML-family extension, an orchestration in two
\* spellings, a timestamp attribute behind an unclosed timestamp=" text, and a
\* path whose keyword the identifier patterns rewrite.
ExtensionFiles ==
    {Stored("g.bpel", "<a timestamp=\"1\"/>"),
     Stored("g.bpel", "<a timestamp=\"2\"/>"),
     Stored("x/Orchestration/f.xml", "<a/>"),
     Stored("x/orchestration/f.xml", "<b/>"),
     Stored("q.xml", "<a b='timestamp=\"' timestamp=\"1\"/>"),
     Stored("q.xml", "<a b='timestamp=\"' timestamp=\"2\"/>"),
     Stored("itg_dvm.csv", "k,v")}

\* One file of each severity, and a mapping with an empty and a real version.
SeverityFiles ==
    {Stored("flow/orchestration.xml", "<a/>"),
     Stored("s.wsdl", "<w/>"),
     Stored("lookup.csv", "k,v"),
     Stored("readme.txt", "hi"),
     Stored("m.xsl", ""),
     Stored("m.xsl", "<x/>")}

\* n lines k1 .. kn
RECURSIVE LinesFrom(_, _)
LinesFrom(lo, hi) ==
    IF lo = hi THEN "k" \o ToString(lo)
    ELSE LinesFrom(lo, (lo + hi) \div 2) \o "\n" \o LinesFrom((lo + hi) \div 2 + 1, hi)

LinesText(n) == LinesFrom(1, n)

\* Versions of a text file: lines that differ in blanks and in order, a file
\* of more lines than a patch lists, a withheld content, and a second file
\* with a real and an empty content.
PatchFiles ==
    {Stored("p.txt", "a\n b \n\nc"),
     Stored("p.txt", "b\nd\n a"),
     Stored("p.txt", LinesText(PatchLineCap + 1)),
     Withheld("p.txt", "sha256:big3"),
     Stored("n.txt", "x"),
     Stored("n.txt", "")}

Universes == {SameKeyFiles, ExtensionFiles, SeverityFiles, PatchFiles}

RECURSIVE ListsOfLen(_, _)
ListsOfLen(u, n) ==
    IF n = 0 THEN {<<>>}
    ELSE {Append(l, f) : l \in ListsOfLen(u, n - 1), f \in u}

\* The entries of one archive have distinct names.
DistinctPaths(files) ==
    \A i, j \in DOMAIN files : files[i].path = files[j].path => i = j

ArchiveLists(u, n) == {l \in ListsOfLen(u, n) : DistinctPaths(l)}

InitDiff ==
    /\ \E u \in Universes :
         \E n \in 0..MaxFiles :
           \E m \in 0..(MaxFiles - n) :
             /\ leftFiles \in ArchiveLists(u, n)
             /\ rightFiles \in ArchiveLists(u, m)
    /\ result = Null /\ swapped = Null
    /\ IdlePath /\ IdleContent /\ IdleLcs /\ IdleCmp /\ IdleParse /\ IdleRun

\* One call of computeFileDiff on the two file lists
ComputeFileDiff ==
    /\ result = Null
    /\ result' = Some(computeFileDiff(leftFiles, rightFiles))
    /\ UNCHANGED <<lcsVars, cmpVars, parseVars, runVars, swapped>>
    /\ UNCHANGED <<path, once, twice, cpath, cleft, cright, nleft, nright,
                   leftFiles, rightFiles>>

NextDiff == ComputeFileDiff

SpecDiff == InitDiff /\ [][NextDiff]_vars

\* A second call of computeFileDiff, on the two file lists in the other order
ComputeSwapped ==
    /\ result # Null /\ swapped = Null
    /\ swapped' = Some(computeFileDiff(rightFiles, leftFiles))
    /\ UNCHANGED <<lcsVars, cmpVars, parseVars, runVars>>
    /\ UNCHANGED <<path, once, twice, cpath, cleft, cright, nleft, nright,
                   leftFiles, rightFiles, result>>

NextSwap == ComputeFileDiff \/ ComputeSwapped

SpecSwap == InitDiff /\ [][NextSwap]_vars

(***************************************************************************)
(* computeDiffOperations (the line diff of the viewer).  Indices in the    *)
(* operations are the 0-based ones of the code; left[i] here is the code's *)
(* left[i - 1].                                                            *)
(***************************************************************************)
\* Mutant: the smaller of the two neighbouring cells is taken.
Max_TakesSmaller(a, b) == IF a >= b THEN b ELSE a

\* Math.max
Max(a, b) == IF a >= b THEN a ELSE b

\* Array(m + 1).fill(null).map(() => Array(n + 1).fill(0))
ZeroTable(m, n) == [i \in 0..m |-> [j \in 0..n |-> 0]]

\* The two nested loops that fill dp, at cell (i, j)
RECURSIVE FillTable(_, _, _, _, _)
FillTable(l, r, dp, i, j) ==
    IF i > Len(l) THEN dp
    ELSE IF j > Len(r) THEN FillTable(l, r, dp, i + 1, 1)
    ELSE FillTable(l, r,
                   [dp EXCEPT ![i][j] =
                      IF l[i] = r[j] THEN dp[i - 1][j - 1] + 1
                      ELSE Max(dp[i - 1][j], dp[i][j - 1])],
                   i, j + 1)

\* Mutant: on a tie the removal is emitted, not the addition.
PreferAdded_OnlyWhenLarger(dp, i, j) == dp[i][j - 1] > dp[i - 1][j]

\* The tie-break of the backtrack: dp[i][j - 1] >= dp[i - 1][j]
PreferAdded(dp, i, j) == dp[i][j - 1] >= dp[i - 1][j]

\* The backtrack loop from (i, j), out holding the operations pushed so far
RECURSIVE Backtrack(_, _, _, _, _, _)
Backtrack(l, r, dp, i, j, out) ==
    IF ~(i > 0 \/ j > 0) THEN out
    ELSE IF i > 0 /\ j > 0 /\ l[i] = r[j]
      THEN Backtrack(l, r, dp, i - 1, j - 1,
                     Append(out, [type |-> "unchanged", leftIdx |-> i - 1,
                                  rightIdx |-> j - 1]))
    ELSE IF j > 0 /\ (i = 0 \/ PreferAdded(dp, i, j))
      THEN Backtrack(l, r, dp, i, j - 1,
                     Append(out, [type |-> "added", leftIdx |-> -1,
                                  rightIdx |-> j - 1]))
    ELSE Backtrack(l, r, dp, i - 1, j,
                   Append(out, [type |-> "removed", leftIdx |-> i - 1,
                                rightIdx |-> -1]))

\* Array.prototype.reverse
reverse(xs) == [k \in DOMAIN xs |-> xs[Len(xs) + 1 - k]]

\* Mutant: the two emptiness tests are taken for each other.
computeDiffOperations_SwappedEmptyTests(l, r) ==
    IF Len(l) = 0 /\ Len(r) = 0 THEN <<>>
    ELSE IF Len(r) = 0
      THEN [idx \in DOMAIN r |-> [type |-> "added", leftIdx |-> -1,
                                  rightIdx |-> idx - 1]]
    ELSE IF Len(l) = 0
      THEN [idx \in DOMAIN l |-> [type |-> "removed", leftIdx |-> idx - 1,
                                  rightIdx |-> -1]]
    ELSE reverse(Backtrack(l, r, FillTable(l, r, ZeroTable(Len(l), Len(r)), 1, 1),
                           Len(l), Len(r), <<>>))

computeDiffOperations(l, r) ==
    IF Len(l) = 0 /\ Len(r) = 0 THEN <<>>
    ELSE IF Len(l) = 0
      THEN [idx \in DOMAIN r |-> [type |-> "added", leftIdx |-> -1,
                                  rightIdx |-> idx - 1]]
    ELSE IF Len(r) = 0
      THEN [idx \in DOMAIN l |-> [type |-> "removed", leftIdx |-> idx - 1,
                                  rightIdx |-> -1]]
    ELSE reverse(Backtrack(l, r, FillTable(l, r, ZeroTable(Len(l), Len(r)), 1, 1),
                           Len(l), Len(r), <<>>))

(***************************************************************************)
(* Inputs of the computeDiffOperations runs: two line sequences of at most *)
(* MaxLines lines over a small alphabet of lines.                          *)
(***************************************************************************)
MaxLines == 3

Lines == {"a", "b", "c", "x"}

RECURSIVE LineSeqs(_)
LineSeqs(n) ==
    IF n = 0 THEN {<<>>}
    ELSE LineSeqs(n - 1) \cup {Append(q, c) : q \in LineSeqs(n - 1), c \in Lines}

InitLcs ==
    /\ left \in LineSeqs(MaxLines)
    /\ right \in LineSeqs(MaxLines)
    /\ ops = Null
    /\ IdlePath /\ IdleContent /\ IdleDiff /\ IdleCmp /\ IdleParse /\ IdleRun

\* One call of computeDiffOperations on the two line sequences
ComputeDiffOperations ==
    /\ ops = Null
    /\ ops' = Some(computeDiffOperations(left, right))
    /\ UNCHANGED <<path, once, twice, cpath, cleft, cright, nleft, nright,
                   leftFiles, rightFiles, result, left, right>>
    /\ UNCHANGED <<cmpVars, parseVars, runVars, swapped>>

NextLcs == ComputeDiffOperations

SpecLcs == InitLcs /\ [][NextLcs]_vars

(***************************************************************************)
(* compareFlows.  A FlowNode is a record [id, type, name, activityType,    *)
(* data]; data is the sequence of the <<key, value>> properties of the     *)
(* object, a value being Some(string) or Null for undefined.  An object    *)
(* keyed by node id is a sequence of <<id, status>> entries.               *)
(***************************************************************************)
\* JSON.stringify of the properties of data from index i on: a property whose
\* value is undefined is left out, sep separates it from the one before.
RECURSIVE StringifyFrom(_, _, _)
StringifyFrom(data, i, sep) ==
    IF i > Len(data) THEN ""
    ELSE IF data[i][2] = Null THEN StringifyFrom(data, i + 1, sep)
    ELSE sep \o "\"" \o data[i][1] \o "\":\"" \o data[i][2][1] \o "\""
         \o StringifyFrom(data, i + 1, ",")

\* JSON.stringify(node.data)
stringify(data) == "{" \o StringifyFrom(data, 1, "") \o "}"

\* new Map(nodes.map(n => [n.name.toLowerCase(), n]))
RECURSIVE NodeMapFrom(_, _, _)
NodeMapFrom(nodes, i, m) ==
    IF i > Len(nodes) THEN m
    ELSE NodeMapFrom(nodes, i + 1, MapSet(m, toLowerCase(nodes[i].name), nodes[i]))

NodeMap(nodes) == NodeMapFrom(nodes, 1, <<>>)

\* Mutant: the node types are not compared.
NodeStatus_IgnoresType(node, other, unmatched) ==
    IF other = Null THEN unmatched
    ELSE IF \/ node.activityType # other[1].activityType
            \/ stringify(node.data) # stringify(other[1].data)
      THEN "modified"
    ELSE "unchanged"

\* The status of node, other being the node the other side's map holds for
\* its name and unmatched the status of a node without one.
NodeStatus(node, other, unmatched) ==
    IF other = Null THEN unmatched
    ELSE IF \/ node.activityType # other[1].activityType
            \/ node.type # other[1].type
            \/ stringify(node.data) # stringify(other[1].data)
      THEN "modified"
    ELSE "unchanged"

\* for (const node of nodes) changes[node.id] = ...
RECURSIVE ChangesFrom(_, _, _, _, _)
ChangesFrom(nodes, i, otherMap, unmatched, acc) ==
    IF i > Len(nodes) THEN acc
    ELSE ChangesFrom(nodes, i + 1, otherMap, unmatched,
                     MapSet(acc, nodes[i].id,
                            NodeStatus(nodes[i],
                                       MapGet(otherMap, toLowerCase(nodes[i].name)),
                                       unmatched)))

compareFlows(lFlow, rFlow) ==
    IF lFlow = Null \/ rFlow = Null
    THEN [leftChanges |-> <<>>, rightChanges |-> <<>>]
    ELSE [leftChanges |->
            ChangesFrom(lFlow[1].nodes, 1, NodeMap(rFlow[1].nodes), "removed", <<>>),
          rightChanges |->
            ChangesFrom(rFlow[1].nodes, 1, NodeMap(lFlow[1].nodes), "added", <<>>)]

(***************************************************************************)
(* Inputs of the compareFlows runs: two flows (or null) of at most         *)
(* MaxNodes nodes; the ids of the right flow start at 1 or at 2.           *)
(***************************************************************************)
MaxNodes == 2

\* Nodes without their ids: two nodes of one name and different data, the
\* name in another letter case, and nodes of one name that differ in type, in
\* activityType, or only in a property that is undefined.
NodeKinds ==
    {[name |-> "Map", type |-> "action", activityType |-> "Map",
      data |-> <<<<"id", Some("1")>>>>],
     [name |-> "Map", type |-> "action", activityType |-> "Map",
      data |-> <<<<"id", Some("2")>>>>],
     [name |-> "MAP", type |-> "action", activityType |-> "Map",
      data |-> <<<<"id", Some("1")>>>>],
     [name |-> "Log", type |-> "action", activityType |-> "logger", data |-> <<>>],
     [name |-> "Log", type |-> "end", activityType |-> "logger", data |-> <<>>],
     [name |-> "Log", type |-> "action", activityType |-> "logger",
      data |-> <<<<"id", Null>>>>]}

RECURSIVE KindSeqs(_)
KindSeqs(n) ==
    IF n = 0 THEN {<<>>}
    ELSE KindSeqs(n - 1) \cup {Append(q, k) : q \in KindSeqs(n - 1), k \in NodeKinds}

\* The flow of the nodes kinds, the id of the k-th being node_(k + offset).
FlowOf(kinds, offset) ==
    Some([nodes |-> [k \in DOMAIN kinds |->
                       [id |-> "node_" \o ToString(k + offset),
                        type |-> kinds[k].type,
                        name |-> kinds[k].name,
                        activityType |-> kinds[k].activityType,
                        data |-> kinds[k].data]],
          connections |-> <<>>,
          metadata |-> [processName |-> "p"]])

InitCmp ==
    /\ leftFlow \in {Null} \cup {FlowOf(kinds, 0) : kinds \in KindSeqs(MaxNodes)}
    /\ rightFlow \in {Null} \cup {FlowOf(kinds, offset) :
                                    kinds \in KindSeqs(MaxNodes), offset \in {0, 1}}
    /\ changes = Null
    /\ IdlePath /\ IdleContent /\ IdleDiff /\ IdleLcs /\ IdleParse /\ IdleRun

\* One call of compareFlows on the two flows
CompareFlows ==
    /\ changes = Null
    /\ changes' = Some(compareFlows(leftFlow, rightFlow))
    /\ UNCHANGED <<path, once, twice, cpath, cleft, cright, nleft, nright,
                   leftFiles, rightFiles, result, lcsVars, parseVars, runVars, swapped,
                   leftFlow, rightFlow>>

NextCmp == CompareFlows

SpecCmp == InitCmp /\ [][NextCmp]_vars

(***************************************************************************)
(* The flow parsers (bpelParser.ts).  A JavaScript value is a record       *)
(* [kind, text, props, items]: a string (kind "str"), an object with its   *)
(* properties in key order (kind "obj", props a sequence of <<key, value>>)*)
(* an array (kind "arr") or undefined (kind "undef").  An XML element is a *)
(* record [tag, attrs, children, text], its text empty unless it has       *)
(* neither attributes nor children.  Node positions and icons are left out *)
(* of the flows; the label of an edge is Null when the edge has none.      *)
(***************************************************************************)
Undefined == [kind |-> "undef", text |-> "", props |-> <<>>, items |-> <<>>]
Str(s) == [kind |-> "str", text |-> s, props |-> <<>>, items |-> <<>>]
Obj(props) == [kind |-> "obj", text |-> "", props |-> props, items |-> <<>>]
Arr(items) == [kind |-> "arr", text |-> "", props |-> <<>>, items |-> items]

Element(tag, attrs, children) ==
    [tag |-> tag, attrs |-> attrs, children |-> children, text |-> ""]

\* An element that holds text only.
TextElement(tag, text) == [tag |-> tag, attrs |-> <<>>, children |-> <<>>, text |-> text]

\* The truthiness of a value: undefined and '' are falsy.
IsTruthy(v) == v.kind # "undef" /\ ~(v.kind = "str" /\ v.text = "")

\* value[key]
Get(v, key) ==
    IF v.kind = "obj" /\ \E i \in DOMAIN v.props : v.props[i][1] = key
    THEN v.props[CHOOSE i \in DOMAIN v.props : v.props[i][1] = key][2]
    ELSE Undefined

\* Object.keys(value)
Keys(v) == IF v.kind = "obj" THEN [i \in DOMAIN v.props |-> v.props[i][1]] ELSE <<>>

\* x ? (Array.isArray(x) ? x : [x]) : []
AsList(v) ==
    IF ~IsTruthy(v) THEN <<>> ELSE IF v.kind = "arr" THEN v.items ELSE <<v>>

\* value[key] || fallback, for a string attribute
AttrOr(v, key, fallback) ==
    IF IsTruthy(Get(v, key)) /\ Get(v, key).kind = "str" THEN Get(v, key).text
    ELSE fallback

\* parser.parse of a well-formed document (ignoreAttributes: false,
\* attributeNamePrefix: '@_', removeNSPrefix: true): an element without
\* attributes and children is its text ('' when it has none), else an object
\* of its attributes and then its children by tag, the namespace prefix of the
\* tag removed, in the order of first appearance, the children of one tag as
\* an array when there are several.
RECURSIVE ElementValue(_)
RECURSIVE WithoutPrefixes(_)
\* removeNSPrefix: the part after the colon of prefix:name
LocalName(tag) ==
    IF FindChar(tag, 1, ":") > 0 /\ FindChar(tag, FindChar(tag, 1, ":") + 1, ":") = 0
    THEN SubSeq(tag, FindChar(tag, 1, ":") + 1, Len(tag))
    ELSE tag

\* The element with the prefix of every tag in it removed.
WithoutPrefixes(e) ==
    [tag |-> LocalName(e.tag), attrs |-> e.attrs, text |-> e.text,
     children |-> [i \in DOMAIN e.children |-> WithoutPrefixes(e.children[i])]]

ChildTags(children) == UniqueFrom([i \in DOMAIN children |-> children[i].tag], 1, <<>>)

ChildrenOfTag(children, tag) == SelectSeq(children, LAMBDA c : c.tag = tag)

AttributeProps(attrs) == [i \in DOMAIN attrs |-> <<"@_" \o attrs[i][1], Str(attrs[i][2])>>]

ElementValue(e) ==
    IF e.attrs = <<>> /\ e.children = <<>> THEN Str(e.text)
    ELSE [kind |-> "obj", text |-> "", items |-> <<>>,
          props |-> AttributeProps(e.attrs)
                    \o [t \in DOMAIN ChildTags(e.children) |->
                          <<ChildTags(e.children)[t],
                            IF Len(ChildrenOfTag(e.children, ChildTags(e.children)[t])) = 1
                            THEN ElementValue(ChildrenOfTag(e.children,
                                                            ChildTags(e.children)[t])[1])
                            ELSE Arr([i \in DOMAIN ChildrenOfTag(e.children,
                                                                 ChildTags(e.children)[t]) |->
                                        ElementValue(ChildrenOfTag(e.children,
                                                                   ChildTags(e.children)[t])[i])])>>]]

\* The outcomes of parser.parse(xmlContent): the value of a well-formed
\* document; for a text that is not XML the parser throws or returns an
\* object without elements, empty or holding the text.
Thrown == [threw |-> TRUE, value |-> Undefined]
Returned(v) == [threw |-> FALSE, value |-> v]

ParseOutcomes(d) ==
    IF d.wellFormed
    THEN {Returned(Obj(<<<<LocalName(d.root.tag), ElementValue(WithoutPrefixes(d.root))>>>>))}
    ELSE {Thrown, Returned(Obj(<<>>)), Returned(Obj(<< <<"#text", Str(d.text)>> >>))}

(***************************************************************************)
(* The process-form parser: parseBpelFlow and its helpers.                 *)
(***************************************************************************)
ACTIVITY_TYPES ==
    {"receive", "invoke", "reply", "assign", "throw", "rethrow", "exit",
     "wait", "empty", "sequence", "flow", "switch", "if", "while",
     "repeatUntil", "forEach", "pick", "scope", "compensate", "compensateScope",
     "validate", "extensionActivity"}

\* NODE_TYPE_MAP[activityType] || 'action'
NODE_TYPE_MAP(activityType) ==
    CASE activityType = "receive" -> "trigger"
      [] activityType \in {"reply", "exit"} -> "end"
      [] activityType \in {"throw", "rethrow", "catch", "catchAll", "faultHandlers"} -> "error"
      [] activityType \in {"sequence", "flow", "scope"} -> "scope"
      [] activityType \in {"switch", "if", "pick"} -> "switch"
      [] activityType \in {"while", "repeatUntil", "forEach"} -> "loop"
      [] OTHER -> "action"

EmptyContext == [nodes |-> <<>>, connections |-> <<>>, nodeCounter |-> 0, connectionCounter |-> 0]

\* A context as it stands when a step begins: the statements before the step
\* have run and the counters hold their values.
Current(ctx) == ctx.nodeCounter >= 0 /\ ctx.connectionCounter >= 0

\* generateNodeId: the counter is incremented and the new id returned.
generateNodeId_NoIncrement(ctx) ==
    [ctx |-> ctx, id |-> "node_" \o ToString(ctx.nodeCounter + 1)]

generateNodeId(ctx) ==
    [ctx |-> [ctx EXCEPT !.nodeCounter = @ + 1],
     id |-> "node_" \o ToString(ctx.nodeCounter + 1)]

FlowNode(id, type, name, activityType, data) ==
    [id |-> id, type |-> type, name |-> name, activityType |-> activityType, data |-> data]

PushNode(ctx, node) == [ctx EXCEPT !.nodes = Append(@, node)]

\* ctx.connections.push({id: generateConnectionId(ctx), source, target, label, type})
PushLabelled(ctx, source, target, type, label) ==
    [ctx EXCEPT !.connectionCounter = @ + 1,
                !.connections = Append(@, [id |-> "edge_" \o ToString(ctx.connectionCounter + 1),
                                           source |-> source, target |-> target,
                                           type |-> type, label |-> label])]

\* ctx.connections.push({id: generateConnectionId(ctx), source, target, type})
PushConnection(ctx, source, target, type) ==
    [ctx EXCEPT !.connectionCounter = @ + 1,
                !.connections = Append(@, [id |-> "edge_" \o ToString(ctx.connectionCounter + 1),
                                           source |-> source, target |-> target,
                                           type |-> type, label |-> Null])]

AlphaNum ==
    Digit \cup DOMAIN UpperToLower \cup {UpperToLower[c] : c \in DOMAIN UpperToLower}

\* key.replace(/^[a-zA-Z0-9]+:/, '').toLowerCase()
NormalizedKey(key) ==
    toLowerCase(IF /\ RunEnd(key, 1, AlphaNum) > 1
                   /\ RunEnd(key, 1, AlphaNum) <= Len(key)
                   /\ Ch(key, RunEnd(key, 1, AlphaNum)) = ":"
                THEN SubSeq(key, RunEnd(key, 1, AlphaNum) + 1, Len(key))
                ELSE key)

RECURSIVE ActivitiesFrom(_, _)
ActivitiesFrom(props, i) ==
    IF i > Len(props) THEN <<>>
    ELSE (IF NormalizedKey(props[i][1]) \in ACTIVITY_TYPES
          THEN IF props[i][2].kind = "arr"
               THEN [j \in DOMAIN props[i][2].items |->
                       <<NormalizedKey(props[i][1]), props[i][2].items[j]>>]
               ELSE << <<NormalizedKey(props[i][1]), props[i][2]>> >>
          ELSE <<>>)
         \o ActivitiesFrom(props, i + 1)

\* The [type, activity] pairs of a container, in key order.  The keys of an
\* array are its indices, none of which is an activity type.
extractActivities(container) ==
    IF ~IsTruthy(container) \/ container.kind # "obj" THEN <<>>
    ELSE ActivitiesFrom(container.props, 1)

\* String(value) of a string or of an object
StringOf(v) == IF v.kind = "str" THEN v.text ELSE "[object Object]"

\* s.substring(0, 30)
LabelText(s) == SubSeq(s, 1, IF Len(s) < 30 THEN Len(s) ELSE 30)

\* String(a || b || fallback).substring(0, 30)
BranchLabel(a, b, fallback) ==
    LabelText(IF IsTruthy(a) THEN StringOf(a)
              ELSE IF IsTruthy(b) THEN StringOf(b) ELSE fallback)

Branch(label, content) == [label |-> label, content |-> content]

\* The {label, content} branches of an if or a switch.
extractConditionalBranches(activity, type) ==
    IF type = "if"
    THEN <<Branch(BranchLabel(Get(Get(activity, "condition"), "#text"),
                              Get(activity, "condition"), "condition"),
                  activity)>>
         \o [i \in DOMAIN AsList(Get(activity, "elseif")) |->
               Branch(BranchLabel(Get(Get(AsList(Get(activity, "elseif"))[i], "condition"),
                                      "#text"),
                                  Get(AsList(Get(activity, "elseif"))[i], "condition"),
                                  "elseif " \o ToString(i)),
                      AsList(Get(activity, "elseif"))[i])]
         \o (IF IsTruthy(Get(activity, "else"))
             THEN <<Branch("else", Get(activity, "else"))>> ELSE <<>>)
    ELSE IF type = "switch"
    THEN [i \in DOMAIN AsList(Get(activity, "case")) |->
            Branch(BranchLabel(Get(AsList(Get(activity, "case"))[i], "@_condition"),
                               Get(AsList(Get(activity, "case"))[i], "condition"),
                               "case " \o ToString(i)),
                   AsList(Get(activity, "case"))[i])]
         \o (IF IsTruthy(Get(activity, "otherwise"))
             THEN <<Branch("otherwise", Get(activity, "otherwise"))>> ELSE <<>>)
    ELSE <<>>

DataAttributes ==
    <<"partnerLink", "operation", "variable", "inputVariable", "outputVariable",
      "faultName", "createInstance">>

\* The attributes copied to node.data (the counter, duration and copy-count
\* properties of forEach, wait and assign are left out).
extractActivityData(activity) ==
    SelectSeq([i \in DOMAIN DataAttributes |->
                 <<DataAttributes[i], Get(activity, "@_" \o DataAttributes[i])>>],
              LAMBDA e : IsTruthy(e[2]))

\* The catch blocks of a scope's faultHandlers.
CatchBlocks(faultHandlers) ==
    IF ~IsTruthy(faultHandlers) THEN <<>>
    ELSE AsList(Get(faultHandlers, "catch"))
         \o (IF IsTruthy(Get(faultHandlers, "catchAll"))
             THEN <<Get(faultHandlers, "catchAll")>> ELSE <<>>)

RECURSIVE processActivity(_, _, _, _)
RECURSIVE ChainFrom(_, _, _, _)
RECURSIVE FlowBranches(_, _, _, _, _)
RECURSIVE ConditionalBranches(_, _, _, _, _)
RECURSIVE PickBranches(_, _, _, _, _)

\* if (childId) prevId = childId
ChainRest(r, activities, i, prevId) ==
    IF r.id # Null THEN ChainFrom(r.ctx, activities, i + 1, r.id)
    ELSE ChainFrom(r.ctx, activities, i + 1, prevId)

\* for (const [type, child] of activities) { ... processActivity(ctx, child, type, prevId) ... }
ChainFrom(ctx, activities, i, prevId) ==
    IF i > Len(activities) THEN [ctx |-> ctx, id |-> prevId]
    ELSE ChainRest(processActivity(ctx, activities[i][2], activities[i][1], prevId),
                   activities, i, prevId)

\* The edge from the end of a branch to the closing node.
CloseBranch(r, endId) == PushConnection(r.ctx, r.id[1], endId, "default")

\* if (branchEndId) ctx.connections.push({source: branchEndId, target: flowEndId})
FlowJoin(r, activities, i, nodeId, flowEndId) ==
    IF r.id # Null
    THEN FlowBranches(CloseBranch(r, flowEndId), activities, i + 1, nodeId, flowEndId)
    ELSE FlowBranches(r.ctx, activities, i + 1, nodeId, flowEndId)

FlowBranches(ctx, activities, i, nodeId, flowEndId) ==
    IF i > Len(activities) \/ ~Current(ctx) THEN ctx
    ELSE FlowJoin(processActivity(ctx, activities[i][2], activities[i][1], Some(nodeId)),
                  activities, i, nodeId, flowEndId)

ConditionalBranches(ctx, branches, i, nodeId, condEndId) ==
    IF i > Len(branches) \/ ~Current(ctx) THEN ctx
    ELSE ConditionalBranches(
             CloseBranch(ChainFrom(PushLabelled(ctx, nodeId, nodeId, "conditional",
                                                Some(branches[i].label)),
                                   extractActivities(branches[i].content), 1, Some(nodeId)),
                         condEndId),
             branches, i + 1, nodeId, condEndId)

PickBranches(ctx, branches, i, nodeId, pickEndId) ==
    IF i > Len(branches) \/ ~Current(ctx) THEN ctx
    ELSE PickBranches(
             CloseBranch(ChainFrom(ctx, extractActivities(branches[i]), 1, Some(nodeId)),
                         pickEndId),
             branches, i + 1, nodeId, pickEndId)

\* The closing node of a flow, a condition or a pick, pushed after its branches.
ClosingNode_NotPushed(ctx, endId, name, activityType) ==
    [ctx |-> ctx, id |-> Some(endId)]

ClosingNode(ctx, endId, name, activityType) ==
    [ctx |-> PushNode(ctx, FlowNode(endId, "action", name, activityType, <<>>)),
     id |-> Some(endId)]

\* The loop-back edge of while, repeatUntil and forEach.
LoopBack(r, nodeId) ==
    [ctx |-> PushLabelled(r.ctx, r.id[1], nodeId, "conditional", Some("loop")),
     id |-> Some(nodeId)]

RECURSIVE CatchNodes(_, _, _, _)
CatchNodes(ctx, catches, i, nodeId) ==
    IF i > Len(catches) \/ ~Current(ctx) THEN ctx
    ELSE CatchNodes(
             PushLabelled(
                 PushNode(generateNodeId(ctx).ctx,
                          FlowNode(generateNodeId(ctx).id, "error",
                                   AttrOr(catches[i], "@_faultName", "Catch " \o ToString(i)),
                                   "catch",
                                   << <<"faultName", Get(catches[i], "@_faultName")>> >>)),
                 nodeId, generateNodeId(ctx).id, "error", Some("error")),
             catches, i + 1, nodeId)

ScopeCatches(r, faultHandlers, nodeId) ==
    [ctx |-> CatchNodes(r.ctx, CatchBlocks(faultHandlers), 1, nodeId), id |-> r.id]

\* The part of processActivity after the node and the edge from its parent.
ActivityBody(ctx, activity, activityType, nodeId) ==
    CASE ~Current(ctx) -> [ctx |-> ctx, id |-> Null]
      [] activityType = "sequence" ->
           ChainFrom(ctx, extractActivities(activity), 1, Some(nodeId))
      [] activityType = "flow" ->
           ClosingNode(FlowBranches(generateNodeId(ctx).ctx, extractActivities(activity), 1,
                                    nodeId, generateNodeId(ctx).id),
                       generateNodeId(ctx).id, "Join", "flowEnd")
      [] activityType \in {"if", "switch"} ->
           ClosingNode(ConditionalBranches(generateNodeId(ctx).ctx,
                                           extractConditionalBranches(activity, activityType),
                                           1, nodeId, generateNodeId(ctx).id),
                       generateNodeId(ctx).id, "Merge", "conditionEnd")
      [] activityType \in {"while", "repeatUntil", "forEach"} ->
           LoopBack(ChainFrom(ctx, extractActivities(activity), 1, Some(nodeId)), nodeId)
      [] activityType = "scope" ->
           ScopeCatches(ChainFrom(ctx, extractActivities(activity), 1, Some(nodeId)),
                        Get(activity, "faultHandlers"), nodeId)
      [] activityType = "pick" ->
           ClosingNode(PickBranches(generateNodeId(ctx).ctx,
                                    AsList(Get(activity, "onMessage"))
                                    \o AsList(Get(activity, "onAlarm")),
                                    1, nodeId, generateNodeId(ctx).id),
                       generateNodeId(ctx).id, "Pick End", "pickEnd")
      [] OTHER -> [ctx |-> ctx, id |-> Some(nodeId)]

\* if (parentId) ctx.connections.push({source: parentId, target: nodeId, type: 'default'})
LinkToParent(ctx, parentId, nodeId) ==
    IF parentId # Null THEN PushConnection(ctx, parentId[1], nodeId, "default") ELSE ctx

processActivity(ctx, activity, activityType, parentId) ==
    IF ~IsTruthy(activity) \/ ~Current(ctx) THEN [ctx |-> ctx, id |-> Null]
    ELSE ActivityBody(
             LinkToParent(
                 PushNode(generateNodeId(ctx).ctx,
                          FlowNode(generateNodeId(ctx).id, NODE_TYPE_MAP(activityType),
                                   AttrOr(activity, "@_name", activityType), activityType,
                                   extractActivityData(activity))),
                 parentId, generateNodeId(ctx).id),
             activity, activityType, generateNodeId(ctx).id)

\* The entries of Object.keys(value): the properties of an object, the
\* indexed items of an array.
Entries(v) ==
    IF v.kind = "arr" THEN [i \in DOMAIN v.items |-> <<ToString(i - 1), v.items[i]>>]
    ELSE v.props

\* findProcess; null is represented by undefined, which is as falsy.
RECURSIVE findProcess(_)
RECURSIVE FindProcessFrom(_, _)
FindProcessFrom(entries, i) ==
    IF i > Len(entries) THEN Undefined
    ELSE IF includes(toLowerCase(entries[i][1]), "process") THEN entries[i][2]
    ELSE IF entries[i][2].kind \in {"obj", "arr"} /\ IsTruthy(findProcess(entries[i][2]))
    THEN findProcess(entries[i][2])
    ELSE FindProcessFrom(entries, i + 1)

findProcess(parsed) ==
    IF IsTruthy(Get(parsed, "process")) THEN Get(parsed, "process")
    ELSE FindProcessFrom(Entries(parsed), 1)

\* prevId = processActivity(ctx, activity, type, prevId, 0) over the root activities
RECURSIVE RootActivities(_, _, _, _)
RootRest(r, activities, i) ==
    IF r.id = Null THEN RootActivities(r.ctx, activities, i + 1, Null)
    ELSE RootActivities(r.ctx, activities, i + 1, r.id)

RootActivities(ctx, activities, i, prevId) ==
    IF i > Len(activities) THEN ctx
    ELSE RootRest(processActivity(ctx, activities[i][2], activities[i][1], prevId),
                  activities, i)

ParsedFlow(ctx, processName) ==
    [nodes |-> ctx.nodes, connections |-> ctx.connections,
     metadata |-> [processName |-> processName]]

\* What a call leaves: the flow it returns, or the exception it lets through.
Returns(flow) == [threw |-> FALSE, flow |-> flow]
Throws == [threw |-> TRUE, flow |-> ParsedFlow(EmptyContext, "")]

\* parseBpelFlow, given the outcome of parser.parse(xmlContent)
parseBpelFlow_NoCatch(parsed) ==
    IF parsed.threw THEN Throws
    ELSE IF ~IsTruthy(findProcess(parsed.value))
    THEN Returns(ParsedFlow(EmptyContext, "Unknown"))
    ELSE Returns(ParsedFlow(RootActivities(EmptyContext,
                                           extractActivities(findProcess(parsed.value)),
                                           1, Null),
                            AttrOr(findProcess(parsed.value), "@_name", "Unnamed Process")))

parseBpelFlow(parsed) ==
    IF parsed.threw THEN Returns(ParsedFlow(EmptyContext, "Parse Error"))
    ELSE IF ~IsTruthy(findProcess(parsed.value))
    THEN Returns(ParsedFlow(EmptyContext, "Unknown"))
    ELSE Returns(ParsedFlow(RootActivities(EmptyContext,
                                           extractActivities(findProcess(parsed.value)),
                                           1, Null),
                            AttrOr(findProcess(parsed.value), "@_name", "Unnamed Process")))

(***************************************************************************)
(* The project-form parser: parseGen3Orchestration and its helpers.  The   *)
(* documents considered carry no refUri attribute, so that the application *)
(* and processor indexes, which only rename a node, are left out.          *)
(***************************************************************************)
\* GEN3_NODE_TYPES[elemType] || 'action'
GEN3_NODE_TYPES(elemType) ==
    CASE elemType = "receive" -> "trigger"
      [] elemType = "try" -> "scope"
      [] elemType = "catchAll" -> "error"
      [] elemType = "stop" -> "end"
      [] elemType \in {"switch", "case"} -> "switch"
      [] elemType = "forEach" -> "loop"
      [] OTHER -> "action"

orchestrationElements ==
    <<"integrationMetadata", "receive", "transformer", "invoke", "stageFile",
      "try", "switch", "forEach", "assign", "activityStreamLogger", "stop", "case",
      "otherwise">>

Gen3Containers == {"try", "switch", "forEach"}

\* `gen3_node_${ctx.nodeCounter}` after ctx.nodeCounter++
Gen3NodeId(ctx) == "gen3_node_" \o ToString(ctx.nodeCounter + 1)

Gen3Counted(ctx) == [ctx EXCEPT !.nodeCounter = @ + 1]

PushGen3Connection(ctx, source, target, type) ==
    [ctx EXCEPT !.connectionCounter = @ + 1,
                !.connections = Append(@, [id |-> "gen3_edge_" \o ToString(ctx.connectionCounter + 1),
                                           source |-> source, target |-> target,
                                           type |-> type,
                                           label |-> IF type = "error" THEN Some("error")
                                                     ELSE Null])]

\* element['@_name'] || element['@_id'] || elemType
DisplayName(element, elemType) ==
    AttrOr(element, "@_name", AttrOr(element, "@_id", elemType))

RECURSIVE processGen3Element(_, _, _)
RECURSIVE createGen3Node(_, _, _, _)

\* The edge from the last node pushed before the end node, unless that is the
\* container's own node.
ConnectLastInner(ctx, nodeId, endId) ==
    IF ctx.nodes[Len(ctx.nodes) - 1].id # nodeId
    THEN PushGen3Connection(ctx, ctx.nodes[Len(ctx.nodes) - 1].id, endId, "default")
    ELSE ctx

\* The end node of a try, a switch or a forEach, pushed after its content.
Gen3End(ctx, elemType, nodeId, displayName) ==
    [ctx |-> ConnectLastInner(
                 PushNode(Gen3Counted(ctx),
                          FlowNode(Gen3NodeId(ctx), "action", "End " \o displayName,
                                   elemType \o "End", <<>>)),
                 nodeId, Gen3NodeId(ctx)),
     id |-> Some(Gen3NodeId(ctx))]

Gen3Body(ctx, elemType, element, nodeId) ==
    IF elemType \in Gen3Containers /\ Current(ctx)
    THEN Gen3End(processGen3Element(ctx, element, Some(nodeId)).ctx, elemType, nodeId,
                 DisplayName(element, elemType))
    ELSE [ctx |-> ctx, id |-> Some(nodeId)]

Gen3Link(ctx, parentId, nodeId, elemType) ==
    IF parentId # Null
    THEN PushGen3Connection(ctx, parentId[1], nodeId,
                            IF elemType = "catchAll" THEN "error" ELSE "default")
    ELSE ctx

createGen3Node(ctx, elemType, element, parentId) ==
    IF elemType = "integrationMetadata" \/ ~Current(ctx) THEN [ctx |-> ctx, id |-> parentId]
    ELSE Gen3Body(
             Gen3Link(
                 PushNode(Gen3Counted(ctx),
                          FlowNode(Gen3NodeId(ctx), GEN3_NODE_TYPES(elemType),
                                   DisplayName(element, elemType), elemType,
                                   << <<"id", Get(element, "@_id")>> >>)),
                 parentId, Gen3NodeId(ctx), elemType),
             elemType, element, Gen3NodeId(ctx))

\* The [elemType, item] pairs that the loops over orchestrationElements and
\* over the items of each type go through, in that order.
RECURSIVE Gen3StepsFrom(_, _, _)
Gen3StepsFrom(element, types, t) ==
    IF t > Len(types) THEN <<>>
    ELSE [j \in DOMAIN AsList(Get(element, types[t])) |->
            <<types[t], AsList(Get(element, types[t]))[j]>>]
         \o Gen3StepsFrom(element, types, t + 1)

Gen3Steps(element) ==
    Gen3StepsFrom(element,
                  SelectSeq(orchestrationElements, LAMBDA t : IsTruthy(Get(element, t))), 1)

\* nodeId = createGen3Node(ctx, elemType, item, lastNodeId, xOffset);
\* if (nodeId) lastNodeId = nodeId
RECURSIVE Gen3Chain(_, _, _, _)
Gen3ChainRest(r, steps, i, lastNodeId) ==
    IF r.id # Null THEN Gen3Chain(r.ctx, steps, i + 1, r.id)
    ELSE Gen3Chain(r.ctx, steps, i + 1, lastNodeId)

Gen3Chain(ctx, steps, i, lastNodeId) ==
    IF i > Len(steps) THEN [ctx |-> ctx, id |-> lastNodeId]
    ELSE Gen3ChainRest(createGen3Node(ctx, steps[i][1], steps[i][2], lastNodeId),
                       steps, i, lastNodeId)

\* createGen3Node(ctx, 'catchAll', item, parentId, xOffset + 250) for each handler
RECURSIVE Gen3CatchAlls(_, _, _, _)
Gen3CatchAlls(ctx, items, i, parentId) ==
    IF i > Len(items) \/ ~Current(ctx) THEN ctx
    ELSE Gen3CatchAlls(createGen3Node(ctx, "catchAll", items[i], parentId).ctx,
                       items, i + 1, parentId)

Gen3Handled(r, element, parentId) ==
    [ctx |-> Gen3CatchAlls(r.ctx, AsList(Get(element, "catchAll")), 1, parentId),
     id |-> r.id]

processGen3Element(ctx, element, parentId) ==
    IF ~IsTruthy(element) \/ element.kind \notin {"obj", "arr"}
    THEN [ctx |-> ctx, id |-> parentId]
    ELSE Gen3Handled(Gen3Chain(ctx, Gen3Steps(element), 1, parentId), element, parentId)

\* The first message context that holds an orchestration or a globalTry.
RECURSIVE ContextOrchestration(_, _)
ContextOrchestration(contexts, i) ==
    IF i > Len(contexts) THEN Undefined
    ELSE IF IsTruthy(Get(contexts[i], "orchestration")) THEN Get(contexts[i], "orchestration")
    ELSE IF IsTruthy(Get(contexts[i], "globalTry")) THEN contexts[i]
    ELSE ContextOrchestration(contexts, i + 1)

\* findOrchestration; null is represented by undefined.
findOrchestration(flow) ==
    IF IsTruthy(Get(flow, "orchestration")) THEN Get(flow, "orchestration")
    ELSE IF IsTruthy(ContextOrchestration(AsList(Get(flow, "messageContext")), 1))
    THEN ContextOrchestration(AsList(Get(flow, "messageContext")), 1)
    ELSE IF IsTruthy(Get(flow, "globalTry"))
    THEN Obj(<< <<"globalTry", Get(flow, "globalTry")>> >>)
    ELSE Undefined

\* value[key] || fallback for a child element; an element that is not text
\* only is written as String() writes an object.
ChildOr(v, key, fallback) ==
    IF ~IsTruthy(Get(v, key)) THEN fallback
    ELSE IF Get(v, key).kind = "str" THEN Get(v, key).text
    ELSE "[object Object]"

Gen3Flow(project, orchestration) ==
    ParsedFlow(processGen3Element(EmptyContext, Get(orchestration, "globalTry"), Null).ctx,
               ChildOr(project, "projectName",
                       ChildOr(project, "projectCode", "OIC Integration")))

\* parseGen3Orchestration, given the outcome of parser.parse(xmlContent)
parseGen3Orchestration(parsed) ==
    IF parsed.threw THEN Returns(ParsedFlow(EmptyContext, "Parse Error"))
    ELSE IF ~IsTruthy(Get(parsed.value, "icsproject"))
         \/ ~IsTruthy(Get(Get(parsed.value, "icsproject"), "icsflow"))
    THEN Returns(ParsedFlow(EmptyContext, "Unknown"))
    ELSE IF ~IsTruthy(findOrchestration(Get(Get(parsed.value, "icsproject"), "icsflow")))
    THEN Returns(ParsedFlow(EmptyContext,
                            ChildOr(Get(parsed.value, "icsproject"), "projectName", "Unknown")))
    ELSE Returns(Gen3Flow(Get(parsed.value, "icsproject"),
                          findOrchestration(Get(Get(parsed.value, "icsproject"), "icsflow"))))

(***************************************************************************)
(* The documents handed to the parsers: project documents whose globalTry  *)
(* holds up to MaxElements orchestration elements, process documents with  *)
(* up to MaxElements root activities, and documents without the expected   *)
(* containers or that are not XML.                                         *)
(***************************************************************************)
MaxElements == 3

Named(tag, name) == Element(tag, << <<"name", name>> >>, <<>>)

Gen3Pieces ==
    {Named("receive", "Start"),
     Named("invoke", "Call"),
     Named("transformer", "Map"),
     Element("stop", <<>>, <<>>),
     Element("integrationMetadata", << <<"id", "meta">> >>, <<>>),
     Element("try", << <<"name", "Guard">> >>,
             <<Named("invoke", "Inner"), Named("catchAll", "Handler")>>),
     Element("catchAll", <<>>, <<Named("stop", "Halt")>>),
     Element("forEach", << <<"name", "Loop">> >>,
             <<Named("assign", "Set"), Named("invoke", "Each")>>),
     Named("switch", "Bare")}

BpelPieces ==
    {Named("receive", "Start"),
     Element("empty", <<>>, <<>>),
     Element("sequence", <<>>, <<Named("invoke", "Call"), Named("reply", "Done")>>),
     Element("flow", << <<"name", "Fork">> >>,
             <<Named("invoke", "A"), Named("invoke", "B"), Named("assign", "C")>>),
     Element("if", <<>>,
             <<TextElement("condition", "$order.total > 1000 and $order.region = 'EU'"),
               Named("invoke", "Then"),
               Element("else", <<>>, <<Named("throw", "Fail")>>)>>),
     Element("switch", <<>>,
             <<Element("case", << <<"condition", "x">> >>, <<Named("invoke", "Case")>>),
               Element("otherwise", <<>>, <<Named("exit", "Quit")>>)>>),
     Element("while", <<>>, <<Named("wait", "Pause")>>),
     Element("scope", << <<"name", "Scope">> >>,
             <<Named("invoke", "Try"),
               Element("faultHandlers", <<>>,
                       <<Element("catch", << <<"faultName", "Fault">> >>, <<>>),
                         Element("catchAll", <<>>, <<Named("rethrow", "Again")>>)>>)>>),
     Element("pick", <<>>,
             <<Element("onMessage", << <<"operation", "op">> >>, <<Named("invoke", "Msg")>>),
               Element("onAlarm", <<>>, <<Named("empty", "Alarm")>>)>>),
     Element("forEach", << <<"name", "Each">> >>, <<Named("invoke", "Item")>>),
     Named("while", "Idle"),
     Named("flow", "None")}

RECURSIVE ElementSeqs(_, _)
ElementSeqs(pieces, n) ==
    IF n = 0 THEN {<<>>}
    ELSE ElementSeqs(pieces, n - 1)
         \cup {Append(xs, e) : xs \in ElementSeqs(pieces, n - 1), e \in pieces}

Document(root) == [wellFormed |-> TRUE, root |-> root, text |-> ""]
NotXml(text) == [wellFormed |-> FALSE, root |-> Element("", <<>>, <<>>), text |-> text]

Project(flowChildren) ==
    Document(Element("icsproject", <<>>,
                     <<TextElement("projectName", "Orders"),
                       Element("icsflow", <<>>, flowChildren)>>))

ProjectDocuments ==
    {Project(<<Element("orchestration", <<>>, <<Element("globalTry", <<>>, children)>>)>>) :
        children \in ElementSeqs(Gen3Pieces, MaxElements)}
    \cup {Project(<<Element("messageContext", <<>>,
                             <<Element("globalTry", <<>>, <<Named("invoke", "Call")>>)>>)>>),
          Project(<<Element("globalTry", <<>>,
                             <<Named("stop", "a"), Named("stop", "b")>>)>>),
          Project(<<Named("application", "application_1")>>),
          Document(Element("icsproject", << <<"id", "p">> >>, <<>>)),
          Document(Named("project", "p"))}

\* A process that holds every kind of activity that has a synthesized node.
RichProcess ==
    Element("process", << <<"name", "Rich">> >>,
            <<Element("sequence", <<>>,
                      <<Named("bpel:assign", "Set"),
                        Element("flow", <<>>, <<Named("invoke", "A"), Named("invoke", "B")>>),
                        Element("if", <<>>, <<Named("invoke", "Then")>>),
                        Element("scope", <<>>,
                                <<Named("invoke", "Try"),
                                  Element("faultHandlers", <<>>,
                                          <<Element("catch", << <<"faultName", "Fault">> >>,
                                                    <<>>)>>)>>),
                        Element("pick", <<>>,
                                <<Element("onMessage", <<>>, <<Named("invoke", "Msg")>>)>>)>>)>>)

ProcessDocuments ==
    {Document(Element("process", << <<"name", "Main">> >>, children)) :
        children \in ElementSeqs(BpelPieces, MaxElements)}
    \cup {Document(RichProcess),
          Document(Element("definitions", <<>>, <<Element("bpelProcess", <<>>,
                                                           <<Named("receive", "Start")>>)>>)),
          Document(Element("process", <<>>, <<>>))}

Documents ==
    ProjectDocuments \cup ProcessDocuments \cup {NotXml("not xml"), NotXml("<<<")}

\* The outcome of a parser call: whether parser.parse threw, whether the call
\* let an exception through, and the flow returned.
Outcome(parsed, call) ==
    Some([xmlThrew |-> parsed.threw, threw |-> call.threw, flow |-> call.flow])

InitParse ==
    /\ doc \in {Some(d) : d \in Documents}
    /\ parser = "none"
    /\ outcome = Null
    /\ IdlePath /\ IdleContent /\ IdleDiff /\ IdleLcs /\ IdleCmp /\ IdleRun

ParseBpelFlow ==
    /\ doc # Null /\ outcome = Null
    /\ \E parsed \in ParseOutcomes(doc[1]) :
          /\ parser' = "bpel"
          /\ outcome' = Outcome(parsed, parseBpelFlow(parsed))
    /\ UNCHANGED <<doc, lcsVars, cmpVars, runVars, swapped>>
    /\ UNCHANGED <<path, once, twice, cpath, cleft, cright, nleft, nright,
                   leftFiles, rightFiles, result>>

ParseGen3Orchestration ==
    /\ doc # Null /\ outcome = Null
    /\ \E parsed \in ParseOutcomes(doc[1]) :
          /\ parser' = "gen3"
          /\ outcome' = Outcome(parsed, parseGen3Orchestration(parsed))
    /\ UNCHANGED <<doc, lcsVars, cmpVars, runVars, swapped>>
    /\ UNCHANGED <<path, once, twice, cpath, cleft, cright, nleft, nright,
                   leftFiles, rightFiles, result>>

NextParse == ParseBpelFlow \/ ParseGen3Orchestration

SpecParse == InitParse /\ [][NextParse]_vars

(***************************************************************************)
(* What the claims speak of: the returned items, the two maps, and the     *)
(* items of one normalized path.                                           *)
(***************************************************************************)
Items == result[1].items
Summary == result[1].summary
LeftAt(k) == MapGet(BuildMap(leftFiles), k)
RightAt(k) == MapGet(BuildMap(rightFiles), k)
UnionKeys ==
    {normalizePath(leftFiles[i].path) : i \in DOMAIN leftFiles}
        \cup {normalizePath(rightFiles[i].path) : i \in DOMAIN rightFiles}
ItemsAt(k) == {i \in DOMAIN Items : Items[i].path = k}
CountOf(severity) == Cardinality({i \in DOMAIN Items : Items[i].severity = severity})
BothSidesChanged(k) ==
    /\ LeftAt(k) # Null /\ RightAt(k) # Null
    /\ LeftAt(k)[1].hash # RightAt(k)[1].hash

\* C1: normalizePath is idempotent: normalizing a normalized path changes nothing.
Orig_C1 == twice # Null => twice = once

(***************************************************************************)
(* C2                                                                      *)
(***************************************************************************)
\* c1 and c2 are equal except for the value of one timestamp="..." attribute.
DiffersOnlyInTimestamp(c1, c2) ==
    /\ c1 # c2
    /\ \E k \in 1..Len(c1) :
         /\ k <= Len(c2)
         /\ SubSeq(c1, 1, k) = SubSeq(c2, 1, k)
         /\ k >= Len("timestamp=\"")
         /\ HasAt(c1, k - Len("timestamp=\"") + 1, "timestamp=\"")
         /\ FindChar(c1, k + 1, "\"") > 0
         /\ FindChar(c2, k + 1, "\"") > 0
         /\ SubSeq(c1, FindChar(c1, k + 1, "\""), Len(c1))
              = SubSeq(c2, FindChar(c2, k + 1, "\""), Len(c2))

\* The left-to-right scan for /timestamp="[^"]*"/g, started at index i of c,
\* starts a match at index target.
RECURSIVE ScanStartsAt(_, _, _)
ScanStartsAt(c, i, target) ==
    IF i > target THEN FALSE
    ELSE IF MatchQuoted(c, i, "timestamp=\"", "\"") > 0
      THEN i = target \/ ScanStartsAt(c, MatchQuoted(c, i, "timestamp=\"", "\""), target)
    ELSE ScanStartsAt(c, i + 1, target)

\* As DiffersOnlyInTimestamp, the attribute being one the scan matches: no
\* unclosed timestamp=" text before it swallows its opening.
DiffersOnlyInMatchedTimestamp(c1, c2) ==
    /\ c1 # c2
    /\ \E k \in 1..Len(c1) :
         /\ k <= Len(c2)
         /\ SubSeq(c1, 1, k) = SubSeq(c2, 1, k)
         /\ k >= Len("timestamp=\"")
         /\ ScanStartsAt(c1, 1, k - Len("timestamp=\"") + 1)
         /\ FindChar(c2, k + 1, "\"") > 0
         /\ SubSeq(c1, FindChar(c1, k + 1, "\""), Len(c1))
              = SubSeq(c2, FindChar(c2, k + 1, "\""), Len(c2))

HasXmlExtension(p) == \E ext \in XmlExtensions : endsWith(toLowerCase(p), ext)

NoModifiedAt(k) == \A i \in ItemsAt(k) : Items[i].changeType # "Modified"

\* C2 as stated: a left and a right file with the same normalized path,
\* different hashes and contents that differ only in a timestamp="..." value
\* give no Modified item for that path.
Orig_C2 ==
    result # Null =>
      \A i \in DOMAIN leftFiles, j \in DOMAIN rightFiles :
        ( /\ normalizePath(leftFiles[i].path) = normalizePath(rightFiles[j].path)
          /\ leftFiles[i].hash # rightFiles[j].hash
          /\ leftFiles[i].content # Null /\ rightFiles[j].content # Null
          /\ DiffersOnlyInTimestamp(leftFiles[i].content[1], rightFiles[j].content[1]) )
        => NoModifiedAt(normalizePath(leftFiles[i].path))

\* The precondition of C2 as amended: the two files are the ones the maps hold
\* for the path, both original paths have an XML-family extension, and the
\* timestamp attribute is one the scan matches.
NoiseFiles(l, r) ==
    /\ l # Null /\ r # Null
    /\ l[1].hash # r[1].hash
    /\ HasXmlExtension(l[1].path) /\ HasXmlExtension(r[1].path)
    /\ l[1].content # Null /\ r[1].content # Null
    /\ DiffersOnlyInMatchedTimestamp(l[1].content[1], r[1].content[1])

NoisePair(k) == NoiseFiles(LeftAt(k), RightAt(k))

\* C2 (amended): when the files the two maps hold for a normalized path (the
\* last file of each list with that path) both have an XML-family extension,
\* different hashes and contents equal except for the value of a
\* timestamp="..." attribute that the scan matches, no item is produced for the path.
Thm_C2 == result # Null => \A k \in UnionKeys : NoisePair(k) => ItemsAt(k) = {}

Wit_C2 == result # Null /\ \E k \in UnionKeys : NoisePair(k)

(***************************************************************************)
(* C3                                                                      *)
(***************************************************************************)
\* The change the claim expects for a path held as l on the left, r on the right.
ExpectedChange(l, r) ==
    IF l = Null THEN "Added"
    ELSE IF r = Null THEN "Removed"
    ELSE IF l[1].hash = r[1].hash THEN "None"
    ELSE IF /\ l[1].content # Null /\ r[1].content # Null
            /\ normalizeContent(l[1].content[1], l[1].path)
                 = normalizeContent(r[1].content[1], r[1].path)
      THEN "None"
    ELSE "Modified"

\* C3: per normalized path of the union at most one item: one Added (right
\* only), one Removed (left only), none for equal hashes, and for different
\* hashes one Modified unless both contents are non-null and equal after
\* normalizeContent.
Orig_C3 ==
    result # Null =>
      /\ \A i \in DOMAIN Items : Items[i].path \in UnionKeys
      /\ \A k \in UnionKeys :
           IF ExpectedChange(LeftAt(k), RightAt(k)) = "None" THEN ItemsAt(k) = {}
           ELSE /\ Cardinality(ItemsAt(k)) = 1
                /\ \A i \in ItemsAt(k) :
                     Items[i].changeType = ExpectedChange(LeftAt(k), RightAt(k))

(***************************************************************************)
(* C4                                                                      *)
(***************************************************************************)
SeverityRank(severity) ==
    CASE severity = "High" -> 0 [] severity = "Medium" -> 1
      [] severity = "Low" -> 2 [] severity = "Info" -> 3

\* The place of normalized path k in the order the loop visits the paths.
VisitIndex(k) ==
    CHOOSE n \in DOMAIN allNormalizedPaths(BuildMap(leftFiles), BuildMap(rightFiles)) :
      allNormalizedPaths(BuildMap(leftFiles), BuildMap(rightFiles))[n] = k

\* C4: the items are in the order High, Medium, Low, Info (so High/Medium come
\* before Low/Info and each group is sorted); equal severities keep the order
\* in which the paths were visited.
Orig_C4 ==
    result # Null =>
      \A i, j \in DOMAIN Items :
        i < j =>
          /\ SeverityRank(Items[i].severity) <= SeverityRank(Items[j].severity)
          /\ Items[i].severity = Items[j].severity
               => VisitIndex(Items[i].path) < VisitIndex(Items[j].path)

(***************************************************************************)
(* C5                                                                      *)
(***************************************************************************)
\* C5: each severity count of the summary is the number of returned items of
\* that severity, the four counts sum to items.length, and totalMeaningful is
\* high + medium.
Thm_C5 ==
    result # Null =>
      /\ Summary.high = CountOf("High")
      /\ Summary.medium = CountOf("Medium")
      /\ Summary.low = CountOf("Low")
      /\ Summary.info = CountOf("Info")
      /\ Summary.high + Summary.medium + Summary.low + Summary.info = Len(Items)
      /\ Summary.totalMeaningful = Summary.high + Summary.medium

Wit_C5 ==
    /\ result # Null
    /\ Len(Items) >= 2
    /\ CountOf("High") + CountOf("Medium") >= 1
    /\ CountOf("Low") + CountOf("Info") >= 1

(***************************************************************************)
(* C6                                                                      *)
(***************************************************************************)
\* The severity table of the claim, for the lower-cased path p of the file.
TableSeverity(p, changeType, structural) ==
    IF includes(p, "orchestration") THEN "High"
    ELSE IF endsWith(p, ".xsl") \/ endsWith(p, ".xslt") \/ includes(p, "mapping")
      THEN (IF changeType = "Added" THEN "Medium"
            ELSE IF changeType = "Removed" THEN "High"
            ELSE IF structural THEN "High" ELSE "Medium")
    ELSE IF includes(p, "connection") \/ endsWith(p, ".jca") THEN "Medium"
    ELSE IF endsWith(p, ".wsdl") \/ endsWith(p, ".xsd") THEN "Medium"
    ELSE IF includes(p, "lookup") \/ includes(p, "dvm") THEN "Low"
    ELSE IF includes(p, "schedule") THEN "Low"
    ELSE IF changeType = "Modified" /\ includes(p, "tracking") THEN "Low"
    ELSE IF changeType = "Modified" /\ endsWith(p, ".properties") THEN "Low"
    ELSE IF changeType = "Modified" /\ (includes(p, "fault") \/ includes(p, "error"))
      THEN "Low"
    ELSE "Info"

\* The path of the file an item stands for.
FilePathOf(item) ==
    IF item.changeType = "Added" THEN item.rightRef[1] ELSE item.leftRef[1]

\* The two contents of a Modified item still differ after XML normalization.
StillDiffers(item) ==
    /\ item.changeType = "Modified"
    /\ LeftAt(item.path)[1].content # Null /\ RightAt(item.path)[1].content # Null
    /\ normalizeXML(LeftAt(item.path)[1].content[1])
         # normalizeXML(RightAt(item.path)[1].content[1])

\* C6: the severity of every item is the one the table gives for the file's
\* path, matched case-insensitively.
Orig_C6 ==
    result # Null =>
      \A i \in DOMAIN Items :
        Items[i].severity
          = TableSeverity(toLowerCase(FilePathOf(Items[i])), Items[i].changeType,
                          StillDiffers(Items[i]))

(***************************************************************************)
(* C7                                                                      *)
(***************************************************************************)
IsOrchestrationPath(ref) == ref # Null /\ includes(toLowerCase(ref[1]), "orchestration")

OrchestrationModifiedIsHigh(items) ==
    \A i \in DOMAIN items :
      ( /\ items[i].changeType = "Modified"
        /\ IsOrchestrationPath(items[i].leftRef)
        /\ IsOrchestrationPath(items[i].rightRef) )
      => items[i].severity = "High"

\* C7: for the two file lists taken in every order (ArchiveLists holds every
\* ordering of a list), a Modified item of a file whose path (on the left and
\* on the right) contains 'orchestration', in any letter case, has severity High.
Thm_C7 == result # Null => OrchestrationModifiedIsHigh(Items)

Wit_C7 ==
    /\ result # Null
    /\ Len(leftFiles) + Len(rightFiles) >= 3
    /\ \E i \in DOMAIN Items :
         /\ Items[i].changeType = "Modified"
         /\ IsOrchestrationPath(Items[i].leftRef)
         /\ IsOrchestrationPath(Items[i].rightRef)
         /\ Items[i].leftRef # Items[i].rightRef

(***************************************************************************)
(* C8                                                                      *)
(***************************************************************************)
ContentMissing(l, r) ==
    /\ l # Null /\ r # Null
    /\ l[1].hash # r[1].hash
    /\ l[1].content = Null \/ r[1].content = Null

\* C8: a path present on both sides with different hashes and a null content
\* on at least one side gives exactly one item, a Modified one.
Thm_C8 ==
    result # Null =>
      \A k \in UnionKeys :
        ContentMissing(LeftAt(k), RightAt(k)) =>
          /\ Cardinality(ItemsAt(k)) = 1
          /\ \A i \in ItemsAt(k) : Items[i].changeType = "Modified"

Wit_C8 ==
    /\ result # Null
    /\ \E k \in UnionKeys :
         /\ BothSidesChanged(k)
         /\ LeftAt(k)[1].content = Null
         /\ RightAt(k)[1].content # Null

\* C9: for every extension family, two contents that differ only in the volatile
\* part of a documented identifier pattern have equal normalizeContent results.
Orig_C9 ==
    (nleft # Null /\ nright # Null /\ DiffersOnlyInVolatileId(cleft, cright))
        => nleft = nright

SideOnlyLines(a, b) ==
    SelectSeq(split(a),
              LAMBDA x : /\ trim(x) # ""
                         /\ \A j \in DOMAIN split(b) : trim(split(b)[j]) # trim(x))

\* The lines of a patch that list a line of a file behind the mark.
ListedLines(patch, mark) == SelectSeq(split(patch), LAMBDA x : HasAt(x, 1, mark))

\* The patch lists, behind mark, the first PatchLineCap of the lines only, and
\* tells the count of the others when there are more.
ListsSide(patch, only, mark) ==
    /\ ListedLines(patch, mark)
         = [i \in 1..(IF Len(only) < PatchLineCap THEN Len(only) ELSE PatchLineCap)
              |-> mark \o only[i]]
    /\ Len(only) > PatchLineCap =>
         \E j \in DOMAIN split(patch) :
           /\ ~HasAt(split(patch)[j], 1, mark)
           /\ includes(split(patch)[j],
                       "and " \o ToString(Len(only) - PatchLineCap) \o " more")

IsLineSetSummary(patch, l, r) ==
    /\ ListsSide(patch, SideOnlyLines(l, r), "- ")
    /\ ListsSide(patch, SideOnlyLines(r, l), "+ ")

\* The patch the claim gives an item whose files are l on the left, r on the right.
PatchAsClaimed(item, l, r) ==
    CASE item.changeType = "Added" ->
           /\ r[1].content # Null
           /\ item.diffPatch = Some("+++ ADDED FILE +++\n\n" \o r[1].content[1])
      [] item.changeType = "Removed" ->
           /\ l[1].content # Null
           /\ item.diffPatch = Some("--- REMOVED FILE ---\n\n" \o l[1].content[1])
      [] item.changeType = "Modified" ->
           /\ l[1].content # Null /\ r[1].content # Null
           /\ item.diffPatch # Null
           /\ IsLineSetSummary(item.diffPatch[1], l[1].content[1], r[1].content[1])

\* C11: the diffPatch of every Added or Removed item is the banner followed by
\* the entire content of the file, and the diffPatch of every Modified item is
\* the line-set-difference summary of the two contents.
Orig_C11 ==
    result # Null =>
      \A i \in DOMAIN Items :
        PatchAsClaimed(Items[i], LeftAt(Items[i].path), RightAt(Items[i].path))

(***************************************************************************)
(* C12                                                                     *)
(***************************************************************************)
Ops == ops[1]

\* The k-th smallest element of a set of numbers.
KthSmallest(S, k) == CHOOSE x \in S : Cardinality({y \in S : y <= x}) = k

\* The subsequence of xs at the indices S.
Pick(xs, S) == [k \in 1..Cardinality(S) |-> xs[KthSmallest(S, k)]]

\* a from index i on is a subsequence of b from index j on.
RECURSIVE IsSubseqFrom(_, _, _, _)
IsSubseqFrom(a, i, b, j) ==
    IF i > Len(a) THEN TRUE
    ELSE IF j > Len(b) THEN FALSE
    ELSE IF a[i] = b[j] THEN IsSubseqFrom(a, i + 1, b, j + 1)
    ELSE IsSubseqFrom(a, i, b, j + 1)

CommonLengths(a, b) ==
    {Cardinality(S) : S \in {T \in SUBSET DOMAIN a : IsSubseqFrom(Pick(a, T), 1, b, 1)}}

\* The length of a longest common subsequence of a and b.
LcsLength(a, b) == CHOOSE k \in CommonLengths(a, b) : \A h \in CommonLengths(a, b) : h <= k

\* The values of field idx of the operations that are not of type skipped, in order.
IndicesOf(operations, skipped, left_side) ==
    [k \in DOMAIN SelectSeq(operations, LAMBDA o : o.type # skipped) |->
       IF left_side
       THEN SelectSeq(operations, LAMBDA o : o.type # skipped)[k].leftIdx
       ELSE SelectSeq(operations, LAMBDA o : o.type # skipped)[k].rightIdx]

UnchangedCount(operations) ==
    Cardinality({k \in DOMAIN operations : operations[k].type = "unchanged"})

\* C12: the operations are a valid minimal edit script: the left indices of the
\* unchanged and removed operations are 0..m-1 in order, the right indices of
\* the unchanged and added operations are 0..n-1 in order, an unchanged
\* operation pairs equal lines, the absent side is -1, and the unchanged
\* operations are as many as a longest common subsequence is long.
Thm_C12 ==
    ops # Null =>
      /\ IndicesOf(Ops, "added", TRUE) = [k \in 1..Len(left) |-> k - 1]
      /\ IndicesOf(Ops, "removed", FALSE) = [k \in 1..Len(right) |-> k - 1]
      /\ \A k \in DOMAIN Ops :
           /\ Ops[k].type = "unchanged" =>
                left[Ops[k].leftIdx + 1] = right[Ops[k].rightIdx + 1]
           /\ Ops[k].type = "added" => Ops[k].leftIdx = -1
           /\ Ops[k].type = "removed" => Ops[k].rightIdx = -1
      /\ UnchangedCount(Ops) = LcsLength(left, right)

Wit_C12 ==
    /\ ops # Null
    /\ Len(left) >= 3 /\ Len(right) >= 3
    /\ left # right
    /\ UnchangedCount(Ops) = 2
    /\ \E k \in DOMAIN Ops : Ops[k].type = "added"
    /\ \E k \in DOMAIN Ops : Ops[k].type = "removed"

(***************************************************************************)
(* C13                                                                     *)
(***************************************************************************)
NoRepeats(xs) == \A i, j \in DOMAIN xs : xs[i] = xs[j] => i = j

\* left = P ++ A ++ S and right = P ++ B ++ S with P of p lines and S of s
\* lines, all lines of P, A, B and S pairwise distinct.
SplitsAs(p, s) ==
    /\ p + s <= Len(left) /\ p + s <= Len(right)
    /\ SubSeq(left, 1, p) = SubSeq(right, 1, p)
    /\ SubSeq(left, Len(left) - s + 1, Len(left))
         = SubSeq(right, Len(right) - s + 1, Len(right))
    /\ NoRepeats(left \o SubSeq(right, p + 1, Len(right) - s))

\* unchanged for P, removed for A (a lines), added for B (b lines), unchanged for S.
OrderedScript(p, a, b, s) ==
    [k \in 1..p |-> [type |-> "unchanged", leftIdx |-> k - 1, rightIdx |-> k - 1]]
    \o [k \in 1..a |-> [type |-> "removed", leftIdx |-> p + k - 1, rightIdx |-> -1]]
    \o [k \in 1..b |-> [type |-> "added", leftIdx |-> -1, rightIdx |-> p + k - 1]]
    \o [k \in 1..s |-> [type |-> "unchanged", leftIdx |-> p + a + k - 1,
                        rightIdx |-> p + b + k - 1]]

\* C13: for left = P ++ A ++ S and right = P ++ B ++ S of pairwise distinct
\* lines the operations are unchanged for P, removed for A in order, added for
\* B in order, unchanged for S.
Thm_C13 ==
    ops # Null =>
      \A p \in 0..Len(left), s \in 0..Len(left) :
        SplitsAs(p, s) =>
          Ops = OrderedScript(p, Len(left) - p - s, Len(right) - p - s, s)

Wit_C13 ==
    /\ ops # Null
    /\ left = <<"a", "b", "c">> /\ right = <<"a", "x", "c">>
    /\ Ops = <<[type |-> "unchanged", leftIdx |-> 0, rightIdx |-> 0],
               [type |-> "removed", leftIdx |-> 1, rightIdx |-> -1],
               [type |-> "added", leftIdx |-> -1, rightIdx |-> 1],
               [type |-> "unchanged", leftIdx |-> 2, rightIdx |-> 2]>>

(***************************************************************************)
(* C14                                                                     *)
(***************************************************************************)
\* C14: two empty sequences give no operation; an empty left gives one added
\* operation per right line, in order, with leftIdx -1; an empty right gives one
\* removed operation per left line, in order, with rightIdx -1.
Thm_C14 ==
    ops # Null =>
      /\ (left = <<>> /\ right = <<>>) => Ops = <<>>
      /\ left = <<>> =>
           Ops = [k \in DOMAIN right |->
                    [type |-> "added", leftIdx |-> -1, rightIdx |-> k - 1]]
      /\ right = <<>> =>
           Ops = [k \in DOMAIN left |->
                    [type |-> "removed", leftIdx |-> k - 1, rightIdx |-> -1]]

Wit_C14 ==
    /\ ops # Null
    /\ left = <<>> /\ Len(right) >= 2
    /\ Len(Ops) = Len(right)

(***************************************************************************)
(* C16                                                                     *)
(***************************************************************************)
LeftChanges == changes[1].leftChanges
RightChanges == changes[1].rightChanges

AllUnchanged(nodes, statuses) ==
    \A k \in DOMAIN nodes : MapGet(statuses, nodes[k].id) = Some("unchanged")

\* C16: when leftFlow and rightFlow are identical graphs, every node id of
\* leftChanges and of rightChanges has the status 'unchanged'.
Orig_C16 ==
    (changes # Null /\ leftFlow # Null /\ leftFlow = rightFlow) =>
      /\ AllUnchanged(leftFlow[1].nodes, LeftChanges)
      /\ AllUnchanged(rightFlow[1].nodes, RightChanges)

(***************************************************************************)
(* C17                                                                     *)
(***************************************************************************)
SameName(a, b) == toLowerCase(a.name) = toLowerCase(b.name)

\* The node of nodes matched with node: the last one of the same name.
Matched(node, nodes) ==
    nodes[CHOOSE k \in DOMAIN nodes :
            /\ SameName(node, nodes[k])
            /\ \A h \in DOMAIN nodes : SameName(node, nodes[h]) => h <= k]

Differs(a, b) ==
    \/ a.activityType # b.activityType
    \/ a.type # b.type
    \/ stringify(a.data) # stringify(b.data)

\* The statuses of nodes are the classified ones, against the nodes others.
Classified(nodes, others, statuses, unmatched) ==
    \A k \in DOMAIN nodes :
      MapGet(statuses, nodes[k].id) =
        Some(IF \A h \in DOMAIN others : ~SameName(nodes[k], others[h]) THEN unmatched
             ELSE IF Differs(nodes[k], Matched(nodes[k], others)) THEN "modified"
             ELSE "unchanged")

\* C17: for two non-null flows a left node is 'removed' exactly when no right
\* node has its name in any letter case, a right node 'added' exactly when no
\* left node has, and a node with a name match is 'modified' when it differs
\* from the matched node (the last of that name) in activityType, type or
\* serialized data and 'unchanged' otherwise, whatever the node ids are.
Thm_C17 ==
    (changes # Null /\ leftFlow # Null /\ rightFlow # Null) =>
      /\ Classified(leftFlow[1].nodes, rightFlow[1].nodes, LeftChanges, "removed")
      /\ Classified(rightFlow[1].nodes, leftFlow[1].nodes, RightChanges, "added")

Wit_C17 ==
    /\ changes # Null /\ leftFlow # Null /\ rightFlow # Null
    /\ \E k \in DOMAIN LeftChanges : LeftChanges[k][2] = "removed"
    /\ \E k \in DOMAIN RightChanges : RightChanges[k][2] = "modified"
    /\ \E k \in DOMAIN RightChanges : RightChanges[k][2] = "unchanged"
    /\ \E k \in DOMAIN leftFlow[1].nodes :
         leftFlow[1].nodes[k].id # rightFlow[1].nodes[k].id

(***************************************************************************)
(* What the parser claims speak of: the flow a parser call returned.       *)
(***************************************************************************)
Parsed(which) == outcome # Null /\ parser = which
ParsedNodes == outcome[1].flow.nodes
ParsedConnections == outcome[1].flow.connections
ProcessName == outcome[1].flow.metadata.processName

IsEmptyFlow(name) ==
    /\ ~outcome[1].threw
    /\ ParsedNodes = <<>>
    /\ ParsedConnections = <<>>
    /\ ProcessName = name

Thm_C18 ==
    outcome # Null =>
        \A i, j \in DOMAIN ParsedNodes :
            ParsedNodes[i].id = ParsedNodes[j].id => i = j

ActivityTypesOf(nodes) == {nodes[i].activityType : i \in DOMAIN nodes}

Wit_C18 ==
    /\ Parsed("bpel")
    /\ {"flowEnd", "conditionEnd", "pickEnd", "catch"} \subseteq ActivityTypesOf(ParsedNodes)
    /\ Len(ParsedNodes) >= 10

\* The elements of tag `tag' at the end of a path of tags below the root.
RECURSIVE ElementsAt(_, _, _)
ElementsAt(elements, tags, i) ==
    IF i > Len(tags) \/ elements = <<>> THEN elements
    ELSE ElementsAt(ChildrenOfTag(elements[1].children, tags[i]), tags, i + 1)

\* The globalTry elements of a project document that holds its orchestration
\* under icsproject/icsflow.
GlobalTries(d) ==
    IF d.wellFormed /\ d.root.tag = "icsproject"
    THEN ElementsAt(<<d.root>>, <<"icsflow", "orchestration", "globalTry">>, 1)
    ELSE <<>>

NameOf(e) == e.attrs[CHOOSE i \in DOMAIN e.attrs : e.attrs[i][1] = "name"][2]

\* A container all of whose elements are named steps without content.
PlainSteps(container) ==
    \A i \in DOMAIN container.children :
        /\ container.children[i].tag \in {"receive", "invoke", "transformer"}
        /\ \E a \in DOMAIN container.children[i].attrs :
              container.children[i].attrs[a][1] = "name"

HasEdge(type, source, target) ==
    \E c \in DOMAIN ParsedConnections :
        /\ ParsedConnections[c].type = type
        /\ ParsedConnections[c].source = source
        /\ ParsedConnections[c].target = target

\* The nodes are those of the elements, in the order of the document, each
\* after the first with a default edge from the node before it.
InDocumentOrder(elements) ==
    /\ Len(ParsedNodes) = Len(elements)
    /\ \A i \in DOMAIN elements :
          /\ ParsedNodes[i].activityType = elements[i].tag
          /\ ParsedNodes[i].name = NameOf(elements[i])
    /\ \A i \in 2..Len(elements) :
          HasEdge("default", ParsedNodes[i - 1].id, ParsedNodes[i].id)

\* C19, as stated, for a globalTry of plain steps: the project-form parser
\* yields one node per element occurrence in the order in which the elements
\* appear in the document, and every node except the first has a default edge
\* from the node of the element that immediately precedes it in the document.
Orig_C19 ==
    (Parsed("gen3") /\ GlobalTries(doc[1]) # <<>> /\ PlainSteps(GlobalTries(doc[1])[1]))
        => InDocumentOrder(GlobalTries(doc[1])[1].children)

CatchAllNodes == {i \in DOMAIN ParsedNodes : ParsedNodes[i].activityType = "catchAll"}

\* The try elements of a container that have a catchAll handler.
HandledTries(container) ==
    SelectSeq(container.children,
              LAMBDA e : e.tag = "try" /\ ChildrenOfTag(e.children, "catchAll") # <<>>)

TouchesDefaultEdge(id) ==
    \E c \in DOMAIN ParsedConnections :
        /\ ParsedConnections[c].type = "default"
        /\ id \in {ParsedConnections[c].source, ParsedConnections[c].target}

\* C20, as stated, for the try containers of a globalTry that has no handler of
\* its own: every catchAll handler yields exactly one error-typed node, which
\* has an error-typed edge from the node of its try and is neither the source
\* nor the target of any default edge.
Orig_C20 ==
    (/\ Parsed("gen3") /\ GlobalTries(doc[1]) # <<>>
     /\ ChildrenOfTag(GlobalTries(doc[1])[1].children, "catchAll") = <<>>)
        => /\ Cardinality(CatchAllNodes) = Len(HandledTries(GlobalTries(doc[1])[1]))
           /\ \A i \in CatchAllNodes :
                 /\ ParsedNodes[i].type = "error"
                 /\ \E j \in DOMAIN ParsedNodes :
                       /\ ParsedNodes[j].activityType = "try"
                       /\ HasEdge("error", ParsedNodes[j].id, ParsedNodes[i].id)
                 /\ ~TouchesDefaultEdge(ParsedNodes[i].id)

\* The indices of the end nodes that close the container node at index i: the
\* nodes of type <container>End after it, with no other container opened or
\* closed in between.
Gen3EndTypes == {t \o "End" : t \in Gen3Containers}

EndNodesOf(i) ==
    {j \in (i + 1)..Len(ParsedNodes) :
        /\ ParsedNodes[j].activityType = ParsedNodes[i].activityType \o "End"
        /\ \A k \in (i + 1)..(j - 1) :
              ParsedNodes[k].activityType \notin Gen3Containers \cup Gen3EndTypes}

\* The nodes of the inner chain of the container at index i closed at index j:
\* the nodes of its children, its handlers apart.
InnerChain(i, j) == {k \in (i + 1)..(j - 1) : ParsedNodes[k].activityType # "catchAll"}

LastOf(S) == CHOOSE k \in S : \A h \in S : h <= k

ContainerNodes == {i \in DOMAIN ParsedNodes : ParsedNodes[i].activityType \in Gen3Containers}

\* The end node at j closes its container with one default edge, which comes
\* from the last node of the inner chain.
ClosedByLastInner(i, j) ==
    InnerChain(i, j) # {} =>
        \A c \in DOMAIN ParsedConnections :
            ParsedConnections[c].target = ParsedNodes[j].id
                => /\ ParsedConnections[c].type = "default"
                   /\ ParsedConnections[c].source = ParsedNodes[LastOf(InnerChain(i, j))].id

\* C21, as stated: in the project form every try, switch or forEach element
\* yields, after the nodes of its own children, exactly one synthesized end
\* node, and that end node receives a default edge from the last node of the
\* container's inner chain.
Orig_C21 ==
    Parsed("gen3") =>
        \A i \in ContainerNodes :
            /\ Cardinality(EndNodesOf(i)) = 1
            /\ \A j \in EndNodesOf(i) :
                  /\ InnerChain(i, j) # {} =>
                        HasEdge("default", ParsedNodes[LastOf(InnerChain(i, j))].id,
                                ParsedNodes[j].id)
                  /\ ClosedByLastInner(i, j)

\* The process element of a document whose root is the process.
IsProcessDocument(d) == d.wellFormed /\ LocalName(d.root.tag) = "process"

\* The child elements of e whose tag, namespace prefix removed, is t.
VocabularyChildren(e, t) == SelectSeq(e.children, LAMBDA c : LocalName(c.tag) = t)

NodesOfActivity(t) == {i \in DOMAIN ParsedNodes : ParsedNodes[i].activityType = t}

\* C22, as stated, for the child elements of the process: every child element
\* whose tag, namespace prefix removed, is one of the 22 vocabulary tags yields
\* a FlowNode of that activity type, whose type is the category that the
\* lookup table gives for the tag.
Orig_C22 ==
    (Parsed("bpel") /\ IsProcessDocument(doc[1])) =>
        \A t \in ACTIVITY_TYPES :
            /\ Cardinality(NodesOfActivity(t)) >= Len(VocabularyChildren(doc[1].root, t))
            /\ \A i \in NodesOfActivity(t) : ParsedNodes[i].type = NODE_TYPE_MAP(t)

\* The activities of an element, in the order of the document.
ActivityChildren(e) == SelectSeq(e.children, LAMBDA c : LocalName(c.tag) \in ACTIVITY_TYPES)

\* The branches of an if (the if itself, its elseif and else elements) or of a
\* switch (its case and otherwise elements).
BranchElements(e) ==
    IF e.tag = "if"
    THEN <<e>> \o SelectSeq(e.children, LAMBDA c : c.tag \in {"elseif", "else"})
    ELSE SelectSeq(e.children, LAMBDA c : c.tag \in {"case", "otherwise"})

HasAttribute(e, name) == \E a \in DOMAIN e.attrs : e.attrs[a][1] = name

AttributeOf(e, name) == e.attrs[CHOOSE a \in DOMAIN e.attrs : e.attrs[a][1] = name][2]

\* The condition of a branch: the condition attribute of a case, the text of
\* the condition element of an if or elseif.
HasCondition(b) ==
    HasAttribute(b, "condition") \/ \E c \in DOMAIN b.children : b.children[c].tag = "condition"

ConditionOf(b) ==
    IF HasAttribute(b, "condition") THEN AttributeOf(b, "condition")
    ELSE b.children[CHOOSE c \in DOMAIN b.children : b.children[c].tag = "condition"].text

\* The label a branch is to carry: at most 30 characters of its condition.
ClaimedLabel(b) ==
    IF b.tag \in {"else", "otherwise"} THEN b.tag
    ELSE SubSeq(ConditionOf(b), 1, IF Len(ConditionOf(b)) < 30 THEN Len(ConditionOf(b)) ELSE 30)

HasLabelledEdge(type, source, target, label) ==
    \E c \in DOMAIN ParsedConnections :
        /\ ParsedConnections[c].type = type
        /\ ParsedConnections[c].source = source
        /\ ParsedConnections[c].target = target
        /\ ParsedConnections[c].label = Some(label)

\* The if and switch elements of the process whose branches hold named
\* activities without content and have a condition.
SimpleBranch(b) ==
    /\ b.tag \in {"else", "otherwise"} \/ HasCondition(b)
    /\ \A a \in DOMAIN ActivityChildren(b) :
          /\ HasAttribute(ActivityChildren(b)[a], "name")
          /\ ActivityChildren(ActivityChildren(b)[a]) = <<>>

Conditionals(d) ==
    SelectSeq(d.root.children,
              LAMBDA e : /\ e.tag \in {"if", "switch"}
                         /\ \A b \in DOMAIN BranchElements(e) : SimpleBranch(BranchElements(e)[b]))

NodesNamed(name) == {i \in DOMAIN ParsedNodes : ParsedNodes[i].name = name}

\* A branch as the claim has it: a conditional edge with the label from the
\* node of the activity to the first node of the branch, and a default edge
\* from the last node of the branch to the Merge node.
BranchAsClaimed(tag, first, last, label) ==
    /\ Len(label) <= 30
    /\ \E n \in NodesOfActivity(tag) :
          \E m \in NodesOfActivity("conditionEnd") :
             /\ \E f \in NodesNamed(first) :
                   HasLabelledEdge("conditional", ParsedNodes[n].id, ParsedNodes[f].id, label)
             /\ \E l \in NodesNamed(last) :
                   HasEdge("default", ParsedNodes[l].id, ParsedNodes[m].id)

BranchesAsClaimed(e) ==
    \A b \in DOMAIN BranchElements(e) :
        ActivityChildren(BranchElements(e)[b]) # <<>> =>
            BranchAsClaimed(e.tag,
                            NameOf(ActivityChildren(BranchElements(e)[b])[1]),
                            NameOf(ActivityChildren(BranchElements(e)[b])[
                                       Len(ActivityChildren(BranchElements(e)[b]))]),
                            ClaimedLabel(BranchElements(e)[b]))

\* C23, as stated, for the if and switch elements of the process: each branch
\* that contains at least one activity has a conditional edge from the if or
\* switch node to the first node of that branch, carrying the branch's label
\* (at most 30 characters), and the last node of the branch has an edge to the
\* Merge node of the activity.
Orig_C23 ==
    (Parsed("bpel") /\ IsProcessDocument(doc[1])) =>
        \A e \in DOMAIN Conditionals(doc[1]) : BranchesAsClaimed(Conditionals(doc[1])[e])

LoopTags == {"while", "repeatUntil", "forEach"}

\* The conditional edges labelled 'loop' that lead to the node of the given id.
LoopEdgesTo(id) ==
    {c \in DOMAIN ParsedConnections :
        /\ ParsedConnections[c].type = "conditional"
        /\ ParsedConnections[c].label = Some("loop")
        /\ ParsedConnections[c].target = id}

\* The loops of the process whose body holds named activities without content.
SimpleLoops(d, tags) ==
    SelectSeq(d.root.children,
              LAMBDA e : /\ LocalName(e.tag) \in tags
                         /\ \A a \in DOMAIN ActivityChildren(e) :
                               /\ HasAttribute(ActivityChildren(e)[a], "name")
                               /\ ActivityChildren(ActivityChildren(e)[a]) = <<>>)

\* The loop edge of the node at n starts at the last node of the body e, or at
\* the node itself when the body is empty.
LoopsBack(n, e) ==
    \E c \in LoopEdgesTo(ParsedNodes[n].id) :
        IF ActivityChildren(e) = <<>> THEN ParsedConnections[c].source = ParsedNodes[n].id
        ELSE \E l \in NodesNamed(NameOf(ActivityChildren(e)[Len(ActivityChildren(e))])) :
                ParsedConnections[c].source = ParsedNodes[l].id

LoopsAsClaimed(d, tags) ==
    /\ \A t \in tags :
          Cardinality({i \in NodesOfActivity(t) : ParsedNodes[i].type = "loop"})
              >= Len(VocabularyChildren(d.root, t))
    /\ \A n \in DOMAIN ParsedNodes :
          ParsedNodes[n].activityType \in tags =>
              Cardinality(LoopEdgesTo(ParsedNodes[n].id)) = 1
    /\ \A e \in DOMAIN SimpleLoops(d, tags) :
          \E n \in NodesOfActivity(LocalName(SimpleLoops(d, tags)[e].tag)) :
              LoopsBack(n, SimpleLoops(d, tags)[e])

\* C24, as stated, for the loops of the process: for every while, repeatUntil
\* or forEach activity the flow contains a loop-typed node and exactly one
\* conditional edge labelled 'loop' whose target is that node and whose source
\* is the last node of the loop body, the loop node itself when the body is
\* empty.
Orig_C24 ==
    (Parsed("bpel") /\ IsProcessDocument(doc[1])) => LoopsAsClaimed(doc[1], LoopTags)

NodeIds == {ParsedNodes[i].id : i \in DOMAIN ParsedNodes}

\* The ids in S and the ids joined to one of them by a connection, whatever
\* its direction.
Neighbours(S) ==
    S \cup {ParsedConnections[c].target :
              c \in {d \in DOMAIN ParsedConnections : ParsedConnections[d].source \in S}}
      \cup {ParsedConnections[c].source :
              c \in {d \in DOMAIN ParsedConnections : ParsedConnections[d].target \in S}}

RECURSIVE ReachableFrom(_)
ReachableFrom(S) == IF Neighbours(S) = S THEN S ELSE ReachableFrom(Neighbours(S))

\* C25, as stated: every non-empty flow returned by either parser is a
\* connected graph: ignoring the direction of the edges, every node is
\* reachable from the first node of the nodes list.
Orig_C25 ==
    (outcome # Null /\ ParsedNodes # <<>>) =>
        NodeIds \subseteq ReachableFrom({ParsedNodes[1].id})

\* C26: in every flow returned by either parser the source and the target of
\* every connection are ids of nodes of that flow.
Thm_C26 ==
    outcome # Null =>
        \A c \in DOMAIN ParsedConnections :
            /\ ParsedConnections[c].source \in NodeIds
            /\ ParsedConnections[c].target \in NodeIds

\* A process flow with edges to a join, a merge and a pick-end node, whose ids
\* are generated before their branches are processed, and to a catch node.
Wit_C26 ==
    /\ Parsed("bpel")
    /\ \A t \in {"flowEnd", "conditionEnd", "pickEnd", "catch"} :
          \E i \in NodesOfActivity(t) :
             \E c \in DOMAIN ParsedConnections :
                ParsedConnections[c].target = ParsedNodes[i].id


(***************************************************************************)
(* The background diff job (processDiffAsync) over the storage, and the    *)
(* DiffViewer that reads the run and its items over the two GET routes.    *)
(* leftFiles and rightFiles are the files stored for the two archives.  A  *)
(* storage call either returns or throws; createDiffItems is one INSERT    *)
(* statement, so it stores all the items or none.  The routes answer a     *)
(* request from the storage as it is at the time they read it.  Requests   *)
(* of the viewer that fail are left out.                                   *)
(***************************************************************************)
MaxRunFiles == 1

\* storage.createDiffRun(insertDiffRunSchema.parse({..., status: 'processing'}))
CreatedRun == [status |-> "processing", completedAt |-> FALSE, summary |-> Null]

\* Mutant: the summary is left out of the update.
MarkCompleted_NoSummary(r, summary) ==
    [r EXCEPT !.status = "completed", !.completedAt = TRUE]

\* storage.updateDiffRun(diffRunId, {status: 'completed', completedAt, summary})
MarkCompleted(r, summary) ==
    [r EXCEPT !.status = "completed", !.completedAt = TRUE, !.summary = Some(summary)]

\* Mutant: the update of the catch block leaves the status as it is.
MarkFailed_KeepsStatus(r) == [r EXCEPT !.completedAt = TRUE]

\* storage.updateDiffRun(diffRunId, {status: 'failed', completedAt})
MarkFailed(r) == [r EXCEPT !.status = "failed", !.completedAt = TRUE]

InitRun ==
    /\ \E n, m \in 0..MaxRunFiles :
         /\ leftFiles \in ArchiveLists(SeverityFiles, n)
         /\ rightFiles \in ArchiveLists(SeverityFiles, m)
    /\ result = Null /\ swapped = Null
    /\ IdlePath /\ IdleContent /\ IdleLcs /\ IdleCmp /\ IdleParse /\ IdleRun

JobUnchanged ==
    UNCHANGED <<path, once, twice, cpath, cleft, cright, nleft, nright,
                leftFiles, rightFiles, result, swapped, lcsVars, cmpVars, parseVars>>

\* POST /api/diff-runs/create: the run is stored as 'processing' and the job
\* is started.
CreateDiffRun ==
    /\ jobPc = "none"
    /\ run' = Some(CreatedRun)
    /\ jobPc' = "readLeft"
    /\ UNCHANGED <<storedItems, computed, storeThrew, viewVars>>
    /\ JobUnchanged

\* const leftFiles = await storage.getArchiveFiles(leftArchiveId)
ReadLeftFiles ==
    /\ jobPc = "readLeft"
    /\ \E threw \in BOOLEAN : jobPc' = IF threw THEN "catch" ELSE "readRight"
    /\ UNCHANGED <<run, storedItems, computed, storeThrew, viewVars>>
    /\ JobUnchanged

\* const rightFiles = await storage.getArchiveFiles(rightArchiveId)
ReadRightFiles ==
    /\ jobPc = "readRight"
    /\ \E threw \in BOOLEAN : jobPc' = IF threw THEN "catch" ELSE "compute"
    /\ UNCHANGED <<run, storedItems, computed, storeThrew, viewVars>>
    /\ JobUnchanged

\* const { items, summary } = computeFileDiff(leftFiles, rightFiles, diffRunId);
\* an exception out of it reaches the catch block like any other.
ComputeDiff ==
    /\ jobPc = "compute"
    /\ \/ jobPc' = "catch" /\ computed' = computed
       \/ /\ jobPc' = "store"
          /\ computed' = Some(computeFileDiff(leftFiles, rightFiles))
    /\ UNCHANGED <<run, storedItems, storeThrew, viewVars>>
    /\ JobUnchanged

\* if (items.length > 0) { await storage.createDiffItems(items); }
StoreItems ==
    /\ jobPc = "store"
    /\ IF computed[1].items = <<>>
       THEN jobPc' = "complete" /\ UNCHANGED <<storedItems, storeThrew>>
       ELSE \E threw \in BOOLEAN :
              IF threw
              THEN jobPc' = "catch" /\ storeThrew' = TRUE /\ storedItems' = storedItems
              ELSE /\ jobPc' = "complete"
                   /\ storedItems' = computed[1].items
                   /\ storeThrew' = storeThrew
    /\ UNCHANGED <<run, computed, viewVars>>
    /\ JobUnchanged

\* await storage.updateDiffRun(diffRunId, {status: 'completed', ...})
WriteCompleted ==
    /\ jobPc = "complete"
    /\ \E threw \in BOOLEAN :
         IF threw THEN jobPc' = "catch" /\ run' = run
         ELSE /\ jobPc' = "done"
              /\ run' = Some(MarkCompleted(run[1], computed[1].summary))
    /\ UNCHANGED <<storedItems, computed, storeThrew, viewVars>>
    /\ JobUnchanged

\* catch (error) { await storage.updateDiffRun(diffRunId, {status: 'failed', ...}) }
\* An exception out of this call rejects the promise of the job; the route
\* logs the rejection.
WriteFailed ==
    /\ jobPc = "catch"
    /\ \E threw \in BOOLEAN :
         IF threw THEN jobPc' = "rejected" /\ run' = run
         ELSE jobPc' = "done" /\ run' = Some(MarkFailed(run[1]))
    /\ UNCHANGED <<storedItems, computed, storeThrew, viewVars>>
    /\ JobUnchanged

\* useEffect(() => { if (diffId) fetchDiffData() }): the two requests of
\* Promise.all are sent.
Mount ==
    /\ viewPc = "unmounted" /\ run # Null
    /\ viewPc' = "fetching"
    /\ UNCHANGED <<viewRun, viewItems, loading, selectedItem, runAnswer, itemsAnswer,
                   pollPc, jobVars>>
    /\ JobUnchanged

\* GET /api/diff-runs/:id reads the run
AnswerRun ==
    /\ viewPc = "fetching" /\ runAnswer = Null
    /\ runAnswer' = Some(run[1])
    /\ UNCHANGED <<viewPc, viewRun, viewItems, loading, selectedItem, itemsAnswer,
                   pollPc, jobVars>>
    /\ JobUnchanged

\* GET /api/diff-runs/:id/items reads the items
AnswerItems ==
    /\ viewPc = "fetching" /\ itemsAnswer = Null
    /\ itemsAnswer' = Some(storedItems)
    /\ UNCHANGED <<viewPc, viewRun, viewItems, loading, selectedItem, runAnswer,
                   pollPc, jobVars>>
    /\ JobUnchanged

\* The status for which the polling effect sets its interval
Polls(r) == r.status = "processing"

\* fetchDiffData after Promise.all: setDiffRun, setDiffItems, setLoading(false);
\* selectItem resets the filters only.  The polling effect runs on the new
\* diffRun.
Resolve ==
    /\ viewPc = "fetching" /\ runAnswer # Null /\ itemsAnswer # Null
    /\ viewRun' = runAnswer
    /\ viewItems' = itemsAnswer[1]
    /\ loading' = FALSE
    /\ viewPc' = "shown"
    /\ pollPc' = IF Polls(runAnswer[1]) THEN "waiting" ELSE "off"
    /\ runAnswer' = Null /\ itemsAnswer' = Null
    /\ UNCHANGED <<selectedItem, jobVars>>
    /\ JobUnchanged

\* One tick of the interval: the run is fetched; a 'completed' or 'failed'
\* run clears the interval and is set, and the items are requested.
PollRun ==
    /\ pollPc = "waiting"
    /\ IF run[1].status = "completed" \/ run[1].status = "failed"
       THEN viewRun' = run /\ pollPc' = "items"
       ELSE UNCHANGED <<viewRun, pollPc>>
    /\ UNCHANGED <<viewPc, viewItems, loading, selectedItem, runAnswer, itemsAnswer,
                   jobVars>>
    /\ JobUnchanged

\* The items fetched by the tick: setDiffItems(items); the first item, if
\* any, is selected; setLoading(false)
PollItems ==
    /\ pollPc = "items"
    /\ viewItems' = storedItems
    /\ selectedItem' = IF storedItems = <<>> THEN selectedItem ELSE Some(storedItems[1])
    /\ loading' = FALSE
    /\ pollPc' = "off"
    /\ UNCHANGED <<viewPc, viewRun, runAnswer, itemsAnswer, jobVars>>
    /\ JobUnchanged

JobStep ==
    \/ ReadLeftFiles \/ ReadRightFiles \/ ComputeDiff \/ StoreItems
    \/ WriteCompleted \/ WriteFailed

NextRun ==
    \/ CreateDiffRun \/ ReadLeftFiles \/ ReadRightFiles \/ ComputeDiff
    \/ StoreItems \/ WriteCompleted \/ WriteFailed
    \/ Mount \/ AnswerRun \/ AnswerItems \/ Resolve \/ PollRun \/ PollItems

SpecRun == InitRun /\ [][NextRun]_vars

\* The event loop runs every continuation of the job that is ready.
SpecRunFair == SpecRun /\ WF_vars(CreateDiffRun) /\ WF_vars(JobStep)

JobEnded == jobPc = "done" \/ jobPc = "rejected"

\* A 'completed' run has all the items computed for it and its summary stored
CompletedIsStored ==
    (run # Null /\ run[1].status = "completed")
      => /\ computed # Null
         /\ storedItems = computed[1].items
         /\ run[1].summary = Some(computed[1].summary)
         /\ ~storeThrew

Processing == run # Null /\ run[1].status = "processing"
Terminal == run # Null /\ (run[1].status = "completed" \/ run[1].status = "failed")
Rejected == jobPc = "rejected"

ShowsCompleted ==
    /\ ~loading
    /\ viewRun # Null /\ viewRun[1].status = "completed"

\* C29: whenever the viewer holds a 'completed' run record and has left the
\* loading and 'processing' displays, the item list it holds equals the items
\* stored for the run.
Orig_C29 == ShowsCompleted => viewItems = storedItems

\* The change type under which a swapped call has to report a path
Mirrored(changeType) ==
    IF changeType = "Added" THEN "Removed"
    ELSE IF changeType = "Removed" THEN "Added"
    ELSE changeType

ReportedPaths(items) == {items[i].path : i \in DOMAIN items}

\* Every item of one call has, in the other call, an item for the same path
\* with the mirrored change type
MirroredIn(items, others) ==
    \A i \in DOMAIN items :
      \E j \in DOMAIN others :
        /\ others[j].path = items[i].path
        /\ others[j].changeType = Mirrored(items[i].changeType)

SwapSymmetric(items, others) ==
    /\ ReportedPaths(items) = ReportedPaths(others)
    /\ MirroredIn(items, others)
    /\ MirroredIn(others, items)

\* C30: computeFileDiff(L, R) and computeFileDiff(R, L) report the same set of
\* normalized paths; a path reported Added by one is reported Removed by the
\* other, and a path reported Modified by one is reported Modified by the
\* other.
Thm_C30 ==
    (result # Null /\ swapped # Null)
      => SwapSymmetric(result[1].items, swapped[1].items)

Wit_C30 ==
    /\ result # Null
    /\ \E i, j \in DOMAIN result[1].items :
         /\ result[1].items[i].changeType = "Added"
         /\ result[1].items[j].changeType = "Modified"
    /\ swapped # Null
    /\ \E i \in DOMAIN swapped[1].items : swapped[1].items[i].changeType = "Removed"

=============================================================================
